---- MODULE Spec2Model ----
(***************************************************************************)
(* Model of the reconciliation engine of csv2bigquery                      *)
(* (src/src/validator_mssql.py, class Validator) and of the table-name     *)
(* derivation shared with src/src/main.py.                                 *)
(*                                                                         *)
(* Python strings that the code takes apart (paths, type names) are        *)
(* sequences of one-character strings, so that basename, splitext and      *)
(* upper() are computed character by character.  Column names and status   *)
(* values are only ever compared for equality and stay atomic strings.     *)
(*                                                                         *)
(* Every action is one call of one method of Validator: its inputs (the    *)
(* values the source and warehouse adapters return to that call) are drawn *)
(* from small sets, and the call and its return value are recorded in      *)
(* op / args / ret.                                                        *)
(***************************************************************************)
EXTENDS Naturals, Integers, Sequences, FiniteSets, TLC

VARIABLES op, args, ret

\* upsert_table_from_csv, step by step: the position in the method, the
\* tables of the dataset, those among them that hold the data loaded by
\* this call, and the warehouse calls made so far with their outcomes
VARIABLES pc, bq_tables, loaded, trace

upsertVars == <<pc, bq_tables, loaded, trace>>

\* process_service, step by step: the position in the function, csv_files
\* after the filter, the state of the future of each file, the futures the
\* main thread has collected, and the results dict
VARIABLES svc_pc, svc_files, svc_futures, svc_collected, svc_results

serviceVars == <<svc_pc, svc_files, svc_futures, svc_collected, svc_results>>

\* a run of main: the pool size set on the warehouse client, the state of
\* the future of each service, and per service the files not yet handed to
\* a worker and the files being loaded
VARIABLES pool_size, run_services, run_remaining, run_inflight

poolVars == <<pool_size, run_services, run_remaining, run_inflight>>

\* main, phase by phase: the position in main, the effects on the warehouse,
\* the bucket and the disk in the order they happened, the state of the
\* future of each service, and the two result dicts of the report
VARIABLES main_pc, events, main_futures, processing_results, validation_results

mainVars == <<main_pc, events, main_futures, processing_results, validation_results>>

\* the variables of the step-by-step models
stepVars == <<upsertVars, serviceVars, poolVars, mainVars>>

vars == <<op, args, ret, stepVars>>

(***************************************************************************)
(* Bounds                                                                  *)
(***************************************************************************)
MaxFiles == 2
MaxRows == 1
MaxNameLen == 4
MaxPrefixLen == 3
MaxColumns == 2
MaxRunFiles == 11
MaxRunServices == 6
MaxMainServices == 2

(***************************************************************************)
(* Strings                                                                 *)
(***************************************************************************)
\* Python's None, distinct from every character sequence
None == <<"NoneType">>

LowerLetters == <<"a","b","c","d","e","f","g","h","i","j","k","l","m",
                  "n","o","p","q","r","s","t","u","v","w","x","y","z">>

UpperLetters == <<"A","B","C","D","E","F","G","H","I","J","K","L","M",
                  "N","O","P","Q","R","S","T","U","V","W","X","Y","Z">>

UpperChar(c) ==
    IF \E i \in 1..26 : LowerLetters[i] = c
    THEN UpperLetters[CHOOSE i \in 1..26 : LowerLetters[i] = c]
    ELSE c

\* str.upper()
Upper(s) == [i \in 1..Len(s) |-> UpperChar(s[i])]

LowerChar(c) ==
    IF \E i \in 1..26 : UpperLetters[i] = c
    THEN LowerLetters[CHOOSE i \in 1..26 : UpperLetters[i] = c]
    ELSE c

\* str.lower() on ASCII text
Lower(s) == [i \in 1..Len(s) |-> LowerChar(s[i])]

\* str.rfind(c), 1-based; 0 when c does not occur
RFind(s, c) ==
    IF \E i \in 1..Len(s) : s[i] = c
    THEN CHOOSE i \in 1..Len(s) : s[i] = c /\ \A j \in (i+1)..Len(s) : s[j] # c
    ELSE 0

\* all sequences over alphabet A of length 0..n
RECURSIVE SeqsUpTo(_, _)
SeqsUpTo(A, n) ==
    IF n = 0 THEN {<<>>}
    ELSE LET shorter == SeqsUpTo(A, n - 1)
         IN  shorter \cup {Append(s, a) : s \in shorter, a \in A}

(***************************************************************************)
(* Table-name extraction                                                   *)
(***************************************************************************)
\* variant of Basename that cuts after the first "/" instead of the last
Basename_FirstSlash(p) ==
    IF \E i \in 1..Len(p) : p[i] = "/"
    THEN SubSeq(p, (CHOOSE i \in 1..Len(p) :
                        p[i] = "/" /\ \A j \in 1..(i - 1) : p[j] # "/") + 1, Len(p))
    ELSE p

\* os.path.basename (posixpath): the part after the last "/"
Basename(p) ==
    SubSeq(p, RFind(p, "/") + 1, Len(p))

\* os.path.splitext(p)[0] (genericpath._splitext): the extension starts at
\* the last dot, unless only dots lie between the last "/" and that dot
SplitextRoot(p) ==
    LET sepIndex == RFind(p, "/")
        dotIndex == RFind(p, ".")
    IN  IF dotIndex > sepIndex
           /\ \E k \in (sepIndex + 1)..(dotIndex - 1) : p[k] # "."
        THEN SubSeq(p, 1, dotIndex - 1)
        ELSE p

\* Validator._extract_table_name_from_path
ExtractTableName(file_path) ==
    LET base_name  == Basename(file_path)
        table_name == SplitextRoot(base_name)
    IN  IF table_name # <<>> THEN table_name ELSE None

\* os.path.splitext(os.path.basename(csv_file))[0] in process_single_file
FileTableName(csv_file) == SplitextRoot(Basename(csv_file))

(***************************************************************************)
(* Type names                                                              *)
(***************************************************************************)
T_INT == <<"I","N","T">>

T_INTEGER == <<"I","N","T","E","G","E","R">>

T_BIGINT == <<"B","I","G","I","N","T">>

T_SMALLINT == <<"S","M","A","L","L","I","N","T">>

T_TINYINT == <<"T","I","N","Y","I","N","T">>

T_VARCHAR == <<"V","A","R","C","H","A","R">>

T_STRING == <<"S","T","R","I","N","G">>

T_NVARCHAR == <<"N","V","A","R","C","H","A","R">>

T_TEXT == <<"T","E","X","T">>

T_CHAR == <<"C","H","A","R">>

T_NCHAR == <<"N","C","H","A","R">>

T_FLOAT == <<"F","L","O","A","T">>

T_FLOAT64 == <<"F","L","O","A","T","6","4">>

T_REAL == <<"R","E","A","L">>

T_DECIMAL == <<"D","E","C","I","M","A","L">>

T_NUMERIC == <<"N","U","M","E","R","I","C">>

T_MONEY == <<"M","O","N","E","Y">>

T_DATETIME == <<"D","A","T","E","T","I","M","E">>

T_DATETIME2 == <<"D","A","T","E","T","I","M","E","2">>

T_SMALLDATETIME == <<"S","M","A","L","L","D","A","T","E","T","I","M","E">>

T_BOOLEAN == <<"B","O","O","L","E","A","N">>

T_TIMESTAMP == <<"T","I","M","E","S","T","A","M","P">>

t_int == <<"i","n","t">>

t_varchar == <<"v","a","r","c","h","a","r">>

t_Float == <<"F","l","o","a","t">>

t_string == <<"s","t","r","i","n","g">>

\* the dict type_mappings of _compare_schemas, as its set of (key, value) items
type_mappings ==
    { <<T_INT, T_INTEGER>>,
      <<T_BIGINT, T_INTEGER>>,
      <<T_SMALLINT, T_INTEGER>>,
      <<T_TINYINT, T_INTEGER>>,
      <<T_VARCHAR, T_STRING>>,
      <<T_NVARCHAR, T_STRING>>,
      <<T_TEXT, T_STRING>>,
      <<T_CHAR, T_STRING>>,
      <<T_NCHAR, T_STRING>>,
      <<T_FLOAT, T_FLOAT>>,
      <<T_FLOAT64, T_FLOAT>>,
      <<T_REAL, T_FLOAT>>,
      <<T_DECIMAL, T_NUMERIC>>,
      <<T_NUMERIC, T_NUMERIC>>,
      <<T_MONEY, T_NUMERIC>>,
      <<T_DATETIME, T_DATETIME>>,
      <<T_DATETIME2, T_DATETIME>>,
      <<T_SMALLDATETIME, T_DATETIME>> }

\* dict.get(key, default)
DictGet(dict, key, default) ==
    IF \E kv \in dict : kv[1] = key
    THEN (CHOOSE kv \in dict : kv[1] = key)[2]
    ELSE default

MappingKeys == {kv[1] : kv \in type_mappings}

MappingValues == {kv[2] : kv \in type_mappings}

\* the type names of the synonym table
TableTypes == MappingKeys \cup MappingValues

\* type names the adapters produce that the table does not know, and
\* lower- and mixed-case spellings (SQL Server reports lower case)
OtherTypes == {T_BOOLEAN, T_TIMESTAMP, t_int, t_varchar, t_Float, t_string}

TypeNames == TableTypes \cup OtherTypes

(***************************************************************************)
(* Schema comparison                                                       *)
(***************************************************************************)
\* variant of ColumnNamesMatch that only asks for the source columns to be
\* present in the destination
ColumnNamesMatch_Subset(csv_schema, bq_schema) ==
    LET csv_columns == DOMAIN csv_schema
        bq_columns  == DOMAIN bq_schema
    IN  csv_columns \subseteq bq_columns

\* _compare_schemas, first part: the two key sets must be equal
ColumnNamesMatch(csv_schema, bq_schema) ==
    LET csv_columns == DOMAIN csv_schema
        bq_columns  == DOMAIN bq_schema
    IN  ~(csv_columns # bq_columns)

\* variant of ColumnTypeMatch without upper()
ColumnTypeMatch_CaseSensitive(csv_type, bq_type) ==
    IF csv_type # bq_type
    THEN LET mapped_type == DictGet(type_mappings, csv_type, csv_type)
         IN  ~(mapped_type # bq_type)
    ELSE TRUE

\* variant of ColumnTypeMatch that maps the destination type as well
ColumnTypeMatch_BothSides(csv_type, bq_type) ==
    IF Upper(csv_type) # Upper(bq_type)
    THEN LET mapped_type == DictGet(type_mappings, Upper(csv_type), Upper(csv_type))
             mapped_bq   == DictGet(type_mappings, Upper(bq_type), Upper(bq_type))
         IN  ~(mapped_type # mapped_bq)
    ELSE TRUE

\* _compare_schemas, body of the loop over the columns: the verdict for
\* one column
ColumnTypeMatch(csv_type, bq_type) ==
    IF Upper(csv_type) # Upper(bq_type)
    THEN LET mapped_type == DictGet(type_mappings, Upper(csv_type), Upper(csv_type))
         IN  ~(mapped_type # Upper(bq_type))
    ELSE TRUE

\* Validator._compare_schemas
CompareSchemas(csv_schema, bq_schema) ==
    IF ~ColumnNamesMatch(csv_schema, bq_schema)
    THEN FALSE
    ELSE \A column \in DOMAIN csv_schema :
             ColumnTypeMatch(csv_schema[column], bq_schema[column])

(***************************************************************************)
(* Sample comparison                                                       *)
(***************************************************************************)
\* a pandas DataFrame (or a list of row dicts), reduced to what the
\* comparison reads: the number of rows and the set of column labels;
\* raised marks a fetch that raised instead of returning
Frame(n, cols) == [raised |-> FALSE, rows |-> n, columns |-> cols]

FetchRaised == [raised |-> TRUE, rows |-> 0, columns |-> {}]

\* DataFrame.empty: no rows or no columns
FrameEmpty(df) == df.rows = 0 \/ df.columns = {}

\* how a call ends: it returns value, or it raises
Returns(v) == [raised |-> FALSE, value |-> v]

Raises == [raised |-> TRUE, value |-> FALSE]

\* _compare_sample_data_gcs, the body of the try block; csv_df is the
\* outcome of read_csv_to_dataframe_gcs, bq_df the outcome of the sample query
SampleBodyGcs(csv_df, bq_df) ==
    IF csv_df.raised THEN Raises
    ELSE IF FrameEmpty(csv_df) THEN Returns(FALSE)
    ELSE IF bq_df.raised THEN Raises
    ELSE IF FrameEmpty(bq_df) THEN Returns(FALSE)
    ELSE IF Cardinality(csv_df.columns) # Cardinality(bq_df.columns) THEN Returns(FALSE)
    ELSE IF csv_df.columns # bq_df.columns THEN Returns(FALSE)
    ELSE Returns(TRUE)

\* variant of SampleTryGcs without the except clause
SampleTryGcs_NoCatch(csv_df, bq_df) ==
    SampleBodyGcs(csv_df, bq_df)

\* _compare_sample_data_gcs, try / except Exception: return False
SampleTryGcs(csv_df, bq_df) ==
    LET body == SampleBodyGcs(csv_df, bq_df)
    IN  IF body.raised THEN Returns(FALSE) ELSE body

\* Validator._compare_sample_data_gcs, as its callers use it
CompareSampleDataGcs(csv_df, bq_df) ==
    SampleTryGcs(csv_df, bq_df).value

\* _compare_sample_data_local, the body of the try block
SampleBodyLocal(csv_df, bq_df) ==
    IF csv_df.raised THEN Raises
    ELSE IF FrameEmpty(csv_df) THEN Returns(FALSE)
    ELSE IF bq_df.raised THEN Raises
    ELSE IF FrameEmpty(bq_df) THEN Returns(FALSE)
    ELSE IF Cardinality(csv_df.columns) # Cardinality(bq_df.columns) THEN Returns(FALSE)
    ELSE IF csv_df.columns # bq_df.columns THEN Returns(FALSE)
    ELSE Returns(TRUE)

\* _compare_sample_data_local, try / except Exception: return False
SampleTryLocal(csv_df, bq_df) ==
    LET body == SampleBodyLocal(csv_df, bq_df)
    IN  IF body.raised THEN Returns(FALSE) ELSE body

\* Validator._compare_sample_data_local, as its callers use it
CompareSampleDataLocal(csv_df, bq_df) ==
    SampleTryLocal(csv_df, bq_df).value

\* _compare_sample_data_mssql, the body of the try block; has_client is
\* self.mssql_client being set, mssql_rows the outcome of get_sample_rows
\* (rows = 0 stands for None and for the empty list)
SampleBodyMssql(has_client, mssql_rows, bq_df) ==
    IF ~has_client THEN Returns(FALSE)
    ELSE IF mssql_rows.raised THEN Raises
    ELSE IF mssql_rows.rows = 0 THEN Returns(FALSE)
    ELSE IF bq_df.raised THEN Raises
    ELSE IF FrameEmpty(bq_df) THEN Returns(FALSE)
    ELSE IF mssql_rows.columns # bq_df.columns THEN Returns(FALSE)
    ELSE Returns(TRUE)

\* _compare_sample_data_mssql, try / except Exception: return False
SampleTryMssql(has_client, mssql_rows, bq_df) ==
    LET body == SampleBodyMssql(has_client, mssql_rows, bq_df)
    IN  IF body.raised THEN Returns(FALSE) ELSE body

\* Validator._compare_sample_data_mssql, as its callers use it
CompareSampleDataMssql(has_client, mssql_rows, bq_df) ==
    SampleTryMssql(has_client, mssql_rows, bq_df).value

(***************************************************************************)
(* Completeness checks                                                     *)
(*                                                                         *)
(* obs[i] holds what the adapters returned for the i-th dataset:           *)
(* csv_rows / mssql_rows (source row count), bq_rows                       *)
(* (BigQueryClient.get_row_count) and table_exists.                        *)
(***************************************************************************)
CompletenessStart ==
    [file_results |-> <<>>, all_files_processed |-> TRUE,
     total_csv_rows |-> 0, total_bq_rows |-> 0]

\* variant of CompletenessFileGcs in which a missing table makes the rows
\* not match
CompletenessFileGcs_ExistsGate(acc, csv_file, o) ==
    LET table_name == ExtractTableName(csv_file)
        rows_match == o.table_exists /\ o.csv_rows = o.bq_rows
        file_result == [file_path    |-> csv_file,
                        table_name   |-> table_name,
                        table_exists |-> o.table_exists,
                        csv_rows     |-> o.csv_rows,
                        bq_rows      |-> o.bq_rows,
                        rows_match   |-> rows_match,
                        status       |-> IF rows_match THEN "success" ELSE "failed"]
    IN  IF table_name = None THEN acc
        ELSE [file_results        |-> Append(acc.file_results, file_result),
              all_files_processed |-> IF ~rows_match THEN FALSE
                                      ELSE acc.all_files_processed,
              total_csv_rows      |-> acc.total_csv_rows + o.csv_rows,
              total_bq_rows       |-> acc.total_bq_rows + o.bq_rows]

\* validate_completeness_gcs, one iteration of the loop over csv_files
CompletenessFileGcs(acc, csv_file, o) ==
    LET table_name == ExtractTableName(csv_file)
        rows_match == o.csv_rows = o.bq_rows
        file_result == [file_path    |-> csv_file,
                        table_name   |-> table_name,
                        table_exists |-> o.table_exists,
                        csv_rows     |-> o.csv_rows,
                        bq_rows      |-> o.bq_rows,
                        rows_match   |-> rows_match,
                        status       |-> IF rows_match THEN "success" ELSE "failed"]
    IN  IF table_name = None THEN acc
        ELSE [file_results        |-> Append(acc.file_results, file_result),
              all_files_processed |-> IF ~rows_match THEN FALSE
                                      ELSE acc.all_files_processed,
              total_csv_rows      |-> acc.total_csv_rows + o.csv_rows,
              total_bq_rows       |-> acc.total_bq_rows + o.bq_rows]

RECURSIVE CompletenessLoopGcs(_, _, _)
CompletenessLoopGcs(csv_files, obs, n) ==
    IF n = 0 THEN CompletenessStart
    ELSE CompletenessFileGcs(CompletenessLoopGcs(csv_files, obs, n - 1),
                             csv_files[n], obs[n])

\* Validator.validate_completeness_gcs
ValidateCompletenessGcs(gcs_path, csv_files, obs) ==
    IF csv_files = <<>>
    THEN [status  |-> "failed",
          message |-> "No CSV files found in GCS path",
          details |-> [gcs_path |-> gcs_path]]
    ELSE LET acc == CompletenessLoopGcs(csv_files, obs, Len(csv_files))
         IN  [status  |-> IF ~acc.all_files_processed THEN "warning" ELSE "success",
              message |-> IF ~acc.all_files_processed
                          THEN "Some files have row count mismatches"
                          ELSE "Completeness validation completed",
              details |-> [total_files         |-> Len(csv_files),
                           file_results        |-> acc.file_results,
                           all_files_processed |-> acc.all_files_processed,
                           total_csv_rows      |-> acc.total_csv_rows,
                           total_bq_rows       |-> acc.total_bq_rows]]

\* variant of CompletenessFileLocal that adds the source count to both totals
CompletenessFileLocal_WrongTotal(acc, csv_file, o) ==
    LET table_name == ExtractTableName(csv_file)
        rows_match == o.csv_rows = o.bq_rows
        file_result == [file_path    |-> csv_file,
                        table_name   |-> table_name,
                        table_exists |-> o.table_exists,
                        csv_rows     |-> o.csv_rows,
                        bq_rows      |-> o.bq_rows,
                        rows_match   |-> rows_match,
                        status       |-> IF rows_match THEN "success" ELSE "failed"]
    IN  IF table_name = None THEN acc
        ELSE [file_results        |-> Append(acc.file_results, file_result),
              all_files_processed |-> IF ~rows_match THEN FALSE
                                      ELSE acc.all_files_processed,
              total_csv_rows      |-> acc.total_csv_rows + o.csv_rows,
              total_bq_rows       |-> acc.total_bq_rows + o.csv_rows]

\* validate_completeness_local, one iteration of the loop over csv_files
CompletenessFileLocal(acc, csv_file, o) ==
    LET table_name == ExtractTableName(csv_file)
        rows_match == o.csv_rows = o.bq_rows
        file_result == [file_path    |-> csv_file,
                        table_name   |-> table_name,
                        table_exists |-> o.table_exists,
                        csv_rows     |-> o.csv_rows,
                        bq_rows      |-> o.bq_rows,
                        rows_match   |-> rows_match,
                        status       |-> IF rows_match THEN "success" ELSE "failed"]
    IN  IF table_name = None THEN acc
        ELSE [file_results        |-> Append(acc.file_results, file_result),
              all_files_processed |-> IF ~rows_match THEN FALSE
                                      ELSE acc.all_files_processed,
              total_csv_rows      |-> acc.total_csv_rows + o.csv_rows,
              total_bq_rows       |-> acc.total_bq_rows + o.bq_rows]

RECURSIVE CompletenessLoopLocal(_, _, _)
CompletenessLoopLocal(csv_files, obs, n) ==
    IF n = 0 THEN CompletenessStart
    ELSE CompletenessFileLocal(CompletenessLoopLocal(csv_files, obs, n - 1),
                               csv_files[n], obs[n])

\* Validator.validate_completeness_local
ValidateCompletenessLocal(local_path, csv_files, obs) ==
    IF csv_files = <<>>
    THEN [status  |-> "failed",
          message |-> "No CSV files found in local path",
          details |-> [local_path |-> local_path]]
    ELSE LET acc == CompletenessLoopLocal(csv_files, obs, Len(csv_files))
         IN  [status  |-> IF ~acc.all_files_processed THEN "warning" ELSE "success",
              message |-> IF ~acc.all_files_processed
                          THEN "Some files have row count mismatches"
                          ELSE "Completeness validation completed",
              details |-> [total_files         |-> Len(csv_files),
                           file_results        |-> acc.file_results,
                           all_files_processed |-> acc.all_files_processed,
                           total_csv_rows      |-> acc.total_csv_rows,
                           total_bq_rows       |-> acc.total_bq_rows]]

CompletenessStartMssql ==
    [table_results |-> <<>>, all_match |-> TRUE,
     total_mssql_rows |-> 0, total_bq_rows |-> 0]

\* validate_completeness_mssql, one iteration of the loop over tables
CompletenessTableMssql(acc, table_name, o) ==
    LET rows_match == o.mssql_rows = o.bq_rows
        table_result == [table_name   |-> table_name,
                         mssql_rows   |-> o.mssql_rows,
                         bq_rows      |-> o.bq_rows,
                         table_exists |-> o.table_exists,
                         rows_match   |-> rows_match,
                         status       |-> IF rows_match THEN "success" ELSE "failed"]
    IN  [table_results    |-> Append(acc.table_results, table_result),
         all_match        |-> IF ~rows_match THEN FALSE ELSE acc.all_match,
         total_mssql_rows |-> acc.total_mssql_rows + o.mssql_rows,
         total_bq_rows    |-> acc.total_bq_rows + o.bq_rows]

RECURSIVE CompletenessLoopMssql(_, _, _)
CompletenessLoopMssql(tables, obs, n) ==
    IF n = 0 THEN CompletenessStartMssql
    ELSE CompletenessTableMssql(CompletenessLoopMssql(tables, obs, n - 1),
                                tables[n], obs[n])

\* Validator.validate_completeness_mssql; has_client is self.mssql_client
\* being set, list_raised is list_tables raising, tables is the list that
\* was passed or that list_tables returned
ValidateCompletenessMssql(has_client, list_raised, tables, obs) ==
    IF ~has_client
    THEN [status  |-> "failed",
          message |-> "MSSQL client not provided for MSSQL validation"]
    ELSE IF list_raised
    THEN [status  |-> "failed",
          message |-> "Failed to list tables in SQL Server DB"]
    ELSE LET acc == CompletenessLoopMssql(tables, obs, Len(tables))
         IN  [status  |-> IF ~acc.all_match THEN "warning" ELSE "success",
              message |-> IF ~acc.all_match
                          THEN "Some tables have row count mismatches"
                          ELSE "MSSQL completeness validation completed",
              details |-> [total_tables     |-> Len(tables),
                           table_results    |-> acc.table_results,
                           all_tables_match |-> acc.all_match,
                           total_mssql_rows |-> acc.total_mssql_rows,
                           total_bq_rows    |-> acc.total_bq_rows]]

\* Validator.validate_single_file_completeness
ValidateSingleFileCompleteness(gcs_path, table_name, o) ==
    LET rows_match == o.csv_rows = o.bq_rows
    IN  [status       |-> IF rows_match THEN "success" ELSE "failed",
         message      |-> IF rows_match THEN "Completeness validation completed"
                          ELSE "Row count mismatch",
         file_path    |-> gcs_path,
         table_name   |-> table_name,
         table_exists |-> o.table_exists,
         csv_rows     |-> o.csv_rows,
         bq_rows      |-> o.bq_rows,
         rows_match   |-> rows_match]

(***************************************************************************)
(* Correctness checks                                                      *)
(*                                                                         *)
(* obs[i] holds what the adapters returned for the i-th dataset:           *)
(* table_exists and, for an existing table, csv_schema / mssql_schema      *)
(* (source schema), bq_schema (the dict built from get_table_info),        *)
(* csv_df / mssql_rows (source sample) and bq_df (outcome of the sample    *)
(* query).  The field fetched of a result is not part of the Python        *)
(* return value: it records the datasets whose schema and sample the call  *)
(* fetched.                                                                *)
(***************************************************************************)
CorrectnessStart ==
    [file_results |-> <<>>, all_files_valid |-> TRUE, fetched |-> {}]

\* validate_correctness_gcs, one iteration of the loop over csv_files
CorrectnessFileGcs(acc, csv_file, o) ==
    LET table_name == ExtractTableName(csv_file)
    IN  IF table_name = None THEN acc
        ELSE IF ~o.table_exists THEN acc
        ELSE LET schema_match == CompareSchemas(o.csv_schema, o.bq_schema)
                 sample_valid == CompareSampleDataGcs(o.csv_df, o.bq_df)
                 file_result  == [file_path    |-> csv_file,
                                  table_name   |-> table_name,
                                  schema_match |-> schema_match,
                                  sample_match |-> sample_valid,
                                  status       |-> IF schema_match /\ sample_valid
                                                   THEN "success" ELSE "failed"]
             IN  [file_results    |-> Append(acc.file_results, file_result),
                  all_files_valid |-> IF ~schema_match \/ ~sample_valid THEN FALSE
                                      ELSE acc.all_files_valid,
                  fetched         |-> acc.fetched \cup {csv_file}]

RECURSIVE CorrectnessLoopGcs(_, _, _)
CorrectnessLoopGcs(csv_files, obs, n) ==
    IF n = 0 THEN CorrectnessStart
    ELSE CorrectnessFileGcs(CorrectnessLoopGcs(csv_files, obs, n - 1),
                             csv_files[n], obs[n])

\* Validator.validate_correctness_gcs
ValidateCorrectnessGcs(gcs_path, csv_files, obs) ==
    IF csv_files = <<>>
    THEN [status  |-> "failed",
          message |-> "No CSV files found in GCS path",
          details |-> [gcs_path |-> gcs_path],
          fetched |-> {}]
    ELSE LET acc == CorrectnessLoopGcs(csv_files, obs, Len(csv_files))
         IN  [status  |-> IF ~acc.all_files_valid THEN "warning" ELSE "success",
              message |-> IF ~acc.all_files_valid
                          THEN "Some files have validation issues"
                          ELSE "Correctness validation completed",
              details |-> [total_files     |-> Len(csv_files),
                           file_results    |-> acc.file_results,
                           all_files_valid |-> acc.all_files_valid],
              fetched |-> acc.fetched]

\* validate_correctness_local, one iteration of the loop over csv_files
CorrectnessFileLocal(acc, csv_file, o) ==
    LET table_name == ExtractTableName(csv_file)
    IN  IF table_name = None THEN acc
        ELSE IF ~o.table_exists THEN acc
        ELSE LET schema_match == CompareSchemas(o.csv_schema, o.bq_schema)
                 sample_valid == CompareSampleDataLocal(o.csv_df, o.bq_df)
                 file_result  == [file_path    |-> csv_file,
                                  table_name   |-> table_name,
                                  schema_match |-> schema_match,
                                  sample_match |-> sample_valid,
                                  status       |-> IF schema_match /\ sample_valid
                                                   THEN "success" ELSE "failed"]
             IN  [file_results    |-> Append(acc.file_results, file_result),
                  all_files_valid |-> IF ~schema_match \/ ~sample_valid THEN FALSE
                                      ELSE acc.all_files_valid,
                  fetched         |-> acc.fetched \cup {csv_file}]

RECURSIVE CorrectnessLoopLocal(_, _, _)
CorrectnessLoopLocal(csv_files, obs, n) ==
    IF n = 0 THEN CorrectnessStart
    ELSE CorrectnessFileLocal(CorrectnessLoopLocal(csv_files, obs, n - 1),
                             csv_files[n], obs[n])

\* Validator.validate_correctness_local
ValidateCorrectnessLocal(local_path, csv_files, obs) ==
    IF csv_files = <<>>
    THEN [status  |-> "failed",
          message |-> "No CSV files found in local path",
          details |-> [local_path |-> local_path],
          fetched |-> {}]
    ELSE LET acc == CorrectnessLoopLocal(csv_files, obs, Len(csv_files))
         IN  [status  |-> IF ~acc.all_files_valid THEN "warning" ELSE "success",
              message |-> IF ~acc.all_files_valid
                          THEN "Some files have validation issues"
                          ELSE "Correctness validation completed",
              details |-> [total_files     |-> Len(csv_files),
                           file_results    |-> acc.file_results,
                           all_files_valid |-> acc.all_files_valid],
              fetched |-> acc.fetched]

CorrectnessStartMssql ==
    [table_results |-> <<>>, all_valid |-> TRUE, fetched |-> {}]

\* variant of CorrectnessTableMssql whose table status looks at the schema
\* only
CorrectnessTableMssql_SchemaOnly(acc, table_name, o) ==
    IF ~o.table_exists THEN acc
    ELSE LET schema_match == CompareSchemas(o.mssql_schema, o.bq_schema)
             sample_valid == CompareSampleDataMssql(TRUE, o.mssql_rows, o.bq_df)
             table_result == [table_name   |-> table_name,
                              schema_match |-> schema_match,
                              sample_match |-> sample_valid,
                              status       |-> IF schema_match
                                               THEN "success" ELSE "failed"]
         IN  [table_results |-> Append(acc.table_results, table_result),
              all_valid     |-> IF ~schema_match \/ ~sample_valid THEN FALSE
                                ELSE acc.all_valid,
              fetched       |-> acc.fetched \cup {table_name}]

\* validate_correctness_mssql, one iteration of the loop over tables
CorrectnessTableMssql(acc, table_name, o) ==
    IF ~o.table_exists THEN acc
    ELSE LET schema_match == CompareSchemas(o.mssql_schema, o.bq_schema)
             sample_valid == CompareSampleDataMssql(TRUE, o.mssql_rows, o.bq_df)
             table_result == [table_name   |-> table_name,
                              schema_match |-> schema_match,
                              sample_match |-> sample_valid,
                              status       |-> IF schema_match /\ sample_valid
                                               THEN "success" ELSE "failed"]
         IN  [table_results |-> Append(acc.table_results, table_result),
              all_valid     |-> IF ~schema_match \/ ~sample_valid THEN FALSE
                                ELSE acc.all_valid,
              fetched       |-> acc.fetched \cup {table_name}]

RECURSIVE CorrectnessLoopMssql(_, _, _)
CorrectnessLoopMssql(tables, obs, n) ==
    IF n = 0 THEN CorrectnessStartMssql
    ELSE CorrectnessTableMssql(CorrectnessLoopMssql(tables, obs, n - 1),
                               tables[n], obs[n])

\* Validator.validate_correctness_mssql
ValidateCorrectnessMssql(has_client, list_raised, tables, obs) ==
    IF ~has_client
    THEN [status  |-> "failed",
          message |-> "MSSQL client not provided for MSSQL validation",
          fetched |-> {}]
    ELSE IF list_raised
    THEN [status  |-> "failed",
          message |-> "Failed to list tables in SQL Server DB",
          fetched |-> {}]
    ELSE LET acc == CorrectnessLoopMssql(tables, obs, Len(tables))
         IN  [status  |-> IF ~acc.all_valid THEN "warning" ELSE "success",
              message |-> IF ~acc.all_valid
                          THEN "Some tables have validation issues"
                          ELSE "MSSQL correctness validation completed",
              details |-> [total_tables     |-> Len(tables),
                           table_results    |-> acc.table_results,
                           all_tables_valid |-> acc.all_valid],
              fetched |-> acc.fetched]

\* Validator.validate_single_file_correctness
ValidateSingleFileCorrectness(gcs_path, table_name, o) ==
    IF ~o.table_exists
    THEN [status     |-> "failed",
          message    |-> "Table does not exist",
          file_path  |-> gcs_path,
          table_name |-> table_name,
          fetched    |-> {}]
    ELSE LET schema_match == CompareSchemas(o.csv_schema, o.bq_schema)
             sample_valid == CompareSampleDataGcs(o.csv_df, o.bq_df)
         IN  [status       |-> IF schema_match /\ sample_valid
                               THEN "success" ELSE "warning",
              message      |-> IF ~schema_match /\ ~sample_valid
                               THEN "Schema mismatch found. Sample data mismatch found."
                               ELSE IF ~schema_match THEN "Schema mismatch found."
                               ELSE IF ~sample_valid THEN "Sample data mismatch found."
                               ELSE "Correctness validation completed",
              file_path    |-> gcs_path,
              table_name   |-> table_name,
              schema_match |-> schema_match,
              sample_match |-> sample_valid,
              fetched      |-> {gcs_path}]

(***************************************************************************)
(* BigQuery client and source adapters: lookups and row counts             *)
(***************************************************************************)

\* how a call of the warehouse or of a source ends: "none" is a normal
\* return, the others are the class of the exception it raised.  NotFound
\* is a subclass of GoogleAPIError; "Exception" is any exception outside
\* the GoogleAPIError hierarchy (transport, credentials, timeout)
Failures == {"none", "NotFound", "GoogleAPIError", "Exception"}

IsGoogleAPIError(e) == e \in {"NotFound", "GoogleAPIError"}

\* BigQueryClient.table_exists, the inner try: get_table / except NotFound
TableExistsInner(lookup) ==
    IF lookup = "none" THEN Returns(TRUE)
    ELSE IF lookup = "NotFound" THEN Returns(FALSE)
    ELSE Raises

\* variant of TableExists without the outer except clause
TableExists_Propagates(lookup) ==
    TableExistsInner(lookup)

\* BigQueryClient.table_exists, the outer try / except Exception: return False
TableExists(lookup) ==
    LET inner == TableExistsInner(lookup)
    IN  IF inner.raised THEN Returns(FALSE) ELSE inner

\* BigQueryClient.get_row_count; query is the outcome of the count query:
\* its failure class, whether the result has a row, and the count in it
BqGetRowCount(query) ==
    IF query.error = "none"
    THEN Returns(IF query.has_row THEN query.count ELSE 0)
    ELSE IF IsGoogleAPIError(query.error) THEN Returns(0)
    ELSE Raises

\* CSVReader.read_csv_to_dataframe_gcs without sample_size, reduced to the
\* number of rows of the frame it returns
ReadCsvToDataframeGcs(has_gcs_client, read) ==
    IF ~has_gcs_client THEN 0
    ELSE IF read.error # "none" THEN 0
    ELSE read.count

\* CSVReader.get_row_count_gcs
GetRowCountGcs(has_gcs_client, read) ==
    Returns(ReadCsvToDataframeGcs(has_gcs_client, read))

\* CSVReader.read_csv_to_dataframe_local without sample_size
ReadCsvToDataframeLocal(read) ==
    IF read.error # "none" THEN 0 ELSE read.count

\* CSVReader.get_row_count_local
GetRowCountLocal(read) ==
    Returns(ReadCsvToDataframeLocal(read))

\* MSSQLClient.get_row_count; query is the outcome of _execute_query
MssqlGetRowCount(query) ==
    IF query.error = "none"
    THEN Returns(IF query.has_row THEN query.count ELSE 0)
    ELSE Returns(0)

\* BigQueryClient.create_table_from_csv; load is the outcome of the load job
CreateTableFromCsv(load) ==
    IF load = "none" THEN Returns(TRUE)
    ELSE IF IsGoogleAPIError(load) THEN Returns(FALSE)
    ELSE Raises

\* create_table_from_csv: the job handed to load_table_from_uri; location is
\* the location the client was constructed with
LoadJob(location, write_disposition) ==
    [location          |-> "asia-southeast1",
     write_disposition |-> write_disposition,
     skip_leading_rows |-> 1]

\* upsert_table_from_csv: temp_table_name = f"{table_name}{temp_table_suffix}"
TempTableName(table_name, temp_table_suffix) ==
    table_name \o temp_table_suffix

\* upsert_table_from_csv: the branch taken on the answer of table_exists
AfterExistsCheck_AlwaysStage(table_exists) ==
    "load_staging"

AfterExistsCheck(table_exists) ==
    IF ~table_exists THEN "create" ELSE "load_staging"

\* variant of PrimaryKey that always takes the first field
PrimaryKey_FirstColumn(schema) ==
    schema[1]

\* upsert_table_from_csv: the first field named id in any letter case,
\* else the first field; schema is the sequence of field names
PrimaryKey(schema) ==
    IF \E i \in 1..Len(schema) : Lower(schema[i]) = <<"i", "d">>
    THEN schema[CHOOSE i \in 1..Len(schema) :
                    /\ Lower(schema[i]) = <<"i", "d">>
                    /\ \A j \in 1..(i - 1) : Lower(schema[j]) # <<"i", "d">>]
    ELSE schema[1]

\* upsert_table_from_csv: the MERGE statement, clause by clause
MergeStatement(target, source, schema) ==
    LET primary_key == PrimaryKey(schema)
    IN  [target |-> target,
         source |-> source,
         on     |-> primary_key,
         update |-> SelectSeq(schema, LAMBDA field : field # primary_key),
         insert |-> schema,
         values |-> schema]

\* upsert_table_from_csv, except GoogleAPIError: return False; e is the
\* class of the exception that reached the handler
UpsertFails(e) ==
    IF IsGoogleAPIError(e) THEN Returns(FALSE) ELSE Raises

(***************************************************************************)
(* State machine: one call of one method at a time                         *)
(***************************************************************************)
Init ==
    /\ op = "idle"
    /\ args = <<>>
    /\ ret = <<>>
    /\ pc = "idle"
    /\ bq_tables = {}
    /\ loaded = {}
    /\ trace = <<>>
    /\ svc_pc = "idle"
    /\ svc_files = <<>>
    /\ svc_futures = <<>>
    /\ svc_collected = {}
    /\ svc_results = <<>>
    /\ pool_size = 0
    /\ run_services = <<>>
    /\ run_remaining = <<>>
    /\ run_inflight = <<>>
    /\ main_pc = "idle"
    /\ events = <<>>
    /\ main_futures = <<>>
    /\ processing_results = <<>>
    /\ validation_results = <<>>

NameAlphabet == {"a", "."}

PrefixAlphabet == {"a", ".", "/"}

FileNames == SeqsUpTo(NameAlphabet, MaxNameLen) \ {<<>>}

Prefixes == SeqsUpTo(PrefixAlphabet, MaxPrefixLen)

\* apply the extraction to a file name, to the same name under a prefix,
\* and to its own result
ExtractTableNameCall ==
    /\ op = "idle"
    /\ UNCHANGED stepVars
    /\ \E f \in FileNames, p \in Prefixes :
        /\ op' = "extract_table_name"
        /\ args' = [name |-> f, prefix |-> p]
        /\ ret' = [bare          |-> ExtractTableName(f),
                   prefixed      |-> ExtractTableName(p \o <<"/">> \o f),
                   twice         |-> ExtractTableName(ExtractTableName(f)),
                   file_bare     |-> FileTableName(f),
                   file_prefixed |-> FileTableName(p \o <<"/">> \o f),
                   file_twice    |-> FileTableName(FileTableName(f))]

ColumnNames == {"id", "name"}

SchemaTypes == {T_INT, T_INTEGER, T_STRING, T_FLOAT}

\* dicts from column name to type name
Schemas == UNION {[cols -> SchemaTypes] : cols \in SUBSET ColumnNames}

\* _compare_schemas on two schemas, and on the same two swapped
CompareSchemasCall ==
    /\ op = "idle"
    /\ UNCHANGED stepVars
    /\ \E a \in Schemas, b \in Schemas :
        /\ op' = "compare_schemas"
        /\ args' = [csv_schema |-> a, bq_schema |-> b]
        /\ ret' = [names         |-> ColumnNamesMatch(a, b),
                   names_swapped |-> ColumnNamesMatch(b, a),
                   result        |-> CompareSchemas(a, b),
                   swapped       |-> CompareSchemas(b, a)]

\* _compare_schemas on two one-column schemas, and on the same two swapped
CompareColumnTypesCall ==
    /\ op = "idle"
    /\ UNCHANGED stepVars
    /\ \E s \in TypeNames, d \in TypeNames :
        /\ op' = "compare_column_types"
        /\ args' = [csv_type |-> s, bq_type |-> d]
        /\ ret' = [result  |-> CompareSchemas([c \in {"col"} |-> s], [c \in {"col"} |-> d]),
                   swapped |-> CompareSchemas([c \in {"col"} |-> d], [c \in {"col"} |-> s])]

(***************************************************************************)
(* Inputs of the batch checks                                              *)
(***************************************************************************)
\* blob names / file paths as the listing returns them: they end in .csv,
\* and two folders may hold a file of the same name
CsvPaths == { <<"d","/","a",".","c","s","v">>,
              <<"d","/","e","/","a",".","c","s","v">>,
              <<"d","/","b",".","c",".","c","s","v">> }

SqlTables == {"t1", "t2", "t3"}

\* a listing: no name twice, at most MaxFiles names
Listings(names) ==
    {l \in SeqsUpTo(names, MaxFiles) : \A i, j \in 1..Len(l) : i # j => l[i] # l[j]}

FileObs == [csv_rows : 0..MaxRows, bq_rows : 0..MaxRows, table_exists : BOOLEAN]

TableObs == [mssql_rows : 0..MaxRows, bq_rows : 0..MaxRows, table_exists : BOOLEAN]

\* schemas inferred from a csv file, reported by SQL Server, held by BigQuery
CsvSchemas == { [c \in {"id", "name"} |-> IF c = "id" THEN T_INTEGER ELSE T_STRING],
                [c \in {"id"} |-> T_INTEGER] }

SqlSchemas == { [c \in {"id", "name"} |-> IF c = "id" THEN t_int ELSE t_varchar],
                [c \in {"id"} |-> t_int] }

BqSchemas == { [c \in {"id", "name"} |-> IF c = "id" THEN T_INTEGER ELSE T_STRING],
               [c \in {"id"} |-> T_INTEGER] }

SourceFrames == { Frame(0, {}), Frame(1, {"id", "name"}) }

BqFrames == { Frame(1, {"id", "name"}), Frame(1, {"id"}) }

FileCheckObs ==
    {[table_exists |-> FALSE]} \cup
    [table_exists : {TRUE}, csv_schema : CsvSchemas, bq_schema : BqSchemas,
     csv_df : SourceFrames, bq_df : BqFrames]

TableCheckObs ==
    {[table_exists |-> FALSE]} \cup
    [table_exists : {TRUE}, mssql_schema : SqlSchemas, bq_schema : BqSchemas,
     mssql_rows : SourceFrames, bq_df : BqFrames]

ValidateCompletenessGcsCall ==
    /\ op = "idle"
    /\ UNCHANGED stepVars
    /\ \E csv_files \in Listings(CsvPaths) :
       \E obs \in [1..Len(csv_files) -> FileObs] :
        /\ op' = "validate_completeness_gcs"
        /\ args' = [source |-> csv_files, obs |-> obs]
        /\ ret' = ValidateCompletenessGcs("gcs_path", csv_files, obs)

ValidateCompletenessLocalCall ==
    /\ op = "idle"
    /\ UNCHANGED stepVars
    /\ \E csv_files \in Listings(CsvPaths) :
       \E obs \in [1..Len(csv_files) -> FileObs] :
        /\ op' = "validate_completeness_local"
        /\ args' = [source |-> csv_files, obs |-> obs]
        /\ ret' = ValidateCompletenessLocal("local_path", csv_files, obs)

\* without a client, and when list_tables raises, no table is looked at
ValidateCompletenessMssqlCall ==
    /\ op = "idle"
    /\ UNCHANGED stepVars
    /\ \/ /\ op' = "validate_completeness_mssql"
          /\ args' = [has_client |-> FALSE, list_raised |-> FALSE,
                      source |-> <<>>, obs |-> <<>>]
          /\ ret' = ValidateCompletenessMssql(FALSE, FALSE, <<>>, <<>>)
       \/ /\ op' = "validate_completeness_mssql"
          /\ args' = [has_client |-> TRUE, list_raised |-> TRUE,
                      source |-> <<>>, obs |-> <<>>]
          /\ ret' = ValidateCompletenessMssql(TRUE, TRUE, <<>>, <<>>)
       \/ \E tables \in Listings(SqlTables) :
          \E obs \in [1..Len(tables) -> TableObs] :
           /\ op' = "validate_completeness_mssql"
           /\ args' = [has_client |-> TRUE, list_raised |-> FALSE,
                       source |-> tables, obs |-> obs]
           /\ ret' = ValidateCompletenessMssql(TRUE, FALSE, tables, obs)

ValidateSingleFileCompletenessCall ==
    /\ op = "idle"
    /\ UNCHANGED stepVars
    /\ \E gcs_path \in CsvPaths, o \in FileObs :
        /\ op' = "validate_single_file_completeness"
        /\ args' = [source |-> <<gcs_path>>, obs |-> <<o>>]
        /\ ret' = ValidateSingleFileCompleteness(gcs_path, FileTableName(gcs_path), o)

ValidateCorrectnessGcsCall ==
    /\ op = "idle"
    /\ UNCHANGED stepVars
    /\ \E csv_files \in Listings(CsvPaths) :
       \E obs \in [1..Len(csv_files) -> FileCheckObs] :
        /\ op' = "validate_correctness_gcs"
        /\ args' = [source |-> csv_files, obs |-> obs]
        /\ ret' = ValidateCorrectnessGcs("gcs_path", csv_files, obs)

ValidateCorrectnessLocalCall ==
    /\ op = "idle"
    /\ UNCHANGED stepVars
    /\ \E csv_files \in Listings(CsvPaths) :
       \E obs \in [1..Len(csv_files) -> FileCheckObs] :
        /\ op' = "validate_correctness_local"
        /\ args' = [source |-> csv_files, obs |-> obs]
        /\ ret' = ValidateCorrectnessLocal("local_path", csv_files, obs)

ValidateCorrectnessMssqlCall ==
    /\ op = "idle"
    /\ UNCHANGED stepVars
    /\ \/ /\ op' = "validate_correctness_mssql"
          /\ args' = [has_client |-> FALSE, list_raised |-> FALSE,
                      source |-> <<>>, obs |-> <<>>]
          /\ ret' = ValidateCorrectnessMssql(FALSE, FALSE, <<>>, <<>>)
       \/ /\ op' = "validate_correctness_mssql"
          /\ args' = [has_client |-> TRUE, list_raised |-> TRUE,
                      source |-> <<>>, obs |-> <<>>]
          /\ ret' = ValidateCorrectnessMssql(TRUE, TRUE, <<>>, <<>>)
       \/ \E tables \in Listings(SqlTables) :
          \E obs \in [1..Len(tables) -> TableCheckObs] :
           /\ op' = "validate_correctness_mssql"
           /\ args' = [has_client |-> TRUE, list_raised |-> FALSE,
                       source |-> tables, obs |-> obs]
           /\ ret' = ValidateCorrectnessMssql(TRUE, FALSE, tables, obs)

ValidateSingleFileCorrectnessCall ==
    /\ op = "idle"
    /\ UNCHANGED stepVars
    /\ \E gcs_path \in CsvPaths, o \in FileCheckObs :
        /\ op' = "validate_single_file_correctness"
        /\ args' = [source |-> <<gcs_path>>, obs |-> <<o>>]
        /\ ret' = ValidateSingleFileCorrectness(gcs_path, FileTableName(gcs_path), o)

\* every outcome of fetching a sample
AllFrames ==
    {FetchRaised} \cup {Frame(n, cols) : n \in 0..MaxRows, cols \in SUBSET ColumnNames}

CompareSampleDataGcsCall ==
    /\ op = "idle"
    /\ UNCHANGED stepVars
    /\ \E csv_df \in AllFrames, bq_df \in AllFrames :
        /\ op' = "compare_sample_data_gcs"
        /\ args' = [source_sample |-> csv_df, bq_sample |-> bq_df]
        /\ ret' = SampleTryGcs(csv_df, bq_df)

CompareSampleDataLocalCall ==
    /\ op = "idle"
    /\ UNCHANGED stepVars
    /\ \E csv_df \in AllFrames, bq_df \in AllFrames :
        /\ op' = "compare_sample_data_local"
        /\ args' = [source_sample |-> csv_df, bq_sample |-> bq_df]
        /\ ret' = SampleTryLocal(csv_df, bq_df)

CompareSampleDataMssqlCall ==
    /\ op = "idle"
    /\ UNCHANGED stepVars
    /\ \E has_client \in BOOLEAN, mssql_rows \in AllFrames, bq_df \in AllFrames :
        /\ op' = "compare_sample_data_mssql"
        /\ args' = [has_client |-> has_client,
                    source_sample |-> mssql_rows, bq_sample |-> bq_df]
        /\ ret' = SampleTryMssql(has_client, mssql_rows, bq_df)

TableExistsCall ==
    /\ op = "idle"
    /\ UNCHANGED stepVars
    /\ \E lookup \in Failures :
        /\ op' = "table_exists"
        /\ args' = [lookup |-> lookup]
        /\ ret' = TableExists(lookup)

\* the outcomes of a count query or of reading a file
CountOutcomes ==
    [error : Failures, has_row : BOOLEAN, count : 0..MaxRows]

BqGetRowCountCall ==
    /\ op = "idle"
    /\ UNCHANGED stepVars
    /\ \E query \in CountOutcomes :
        /\ op' = "bq_get_row_count"
        /\ args' = [query |-> query]
        /\ ret' = BqGetRowCount(query)

GetRowCountGcsCall ==
    /\ op = "idle"
    /\ UNCHANGED stepVars
    /\ \E has_gcs_client \in BOOLEAN, read \in CountOutcomes :
        /\ op' = "get_row_count_gcs"
        /\ args' = [has_gcs_client |-> has_gcs_client, query |-> read]
        /\ ret' = GetRowCountGcs(has_gcs_client, read)

GetRowCountLocalCall ==
    /\ op = "idle"
    /\ UNCHANGED stepVars
    /\ \E read \in CountOutcomes :
        /\ op' = "get_row_count_local"
        /\ args' = [query |-> read]
        /\ ret' = GetRowCountLocal(read)

MssqlGetRowCountCall ==
    /\ op = "idle"
    /\ UNCHANGED stepVars
    /\ \E query \in CountOutcomes :
        /\ op' = "mssql_get_row_count"
        /\ args' = [query |-> query]
        /\ ret' = MssqlGetRowCount(query)

\* the locations a client may be constructed with
Locations == {"asia-southeast1", "US", "EU"}

WriteDispositions == {"WRITE_TRUNCATE", "WRITE_APPEND", "WRITE_EMPTY"}

CreateTableFromCsvCall ==
    /\ op = "idle"
    /\ UNCHANGED stepVars
    /\ \E location \in Locations, write_disposition \in WriteDispositions,
          load \in Failures \ {"NotFound"} :
        /\ op' = "create_table_from_csv"
        /\ args' = [location |-> location, write_disposition |-> write_disposition,
                    load |-> load]
        /\ ret' = [job    |-> LoadJob(location, write_disposition),
                   result |-> CreateTableFromCsv(load)]

\* the caller has taken the result; the validator keeps no state between calls
Return ==
    /\ op # "idle"
    /\ UNCHANGED stepVars
    /\ op' = "idle"
    /\ args' = <<>>
    /\ ret' = <<>>

Next ==
    \/ ExtractTableNameCall
    \/ CompareSchemasCall
    \/ CompareColumnTypesCall
    \/ ValidateCompletenessGcsCall
    \/ ValidateCompletenessLocalCall
    \/ ValidateCompletenessMssqlCall
    \/ ValidateSingleFileCompletenessCall
    \/ ValidateCorrectnessGcsCall
    \/ ValidateCorrectnessLocalCall
    \/ ValidateCorrectnessMssqlCall
    \/ ValidateSingleFileCorrectnessCall
    \/ CompareSampleDataGcsCall
    \/ CompareSampleDataLocalCall
    \/ CompareSampleDataMssqlCall
    \/ TableExistsCall
    \/ BqGetRowCountCall
    \/ GetRowCountGcsCall
    \/ GetRowCountLocalCall
    \/ MssqlGetRowCountCall
    \/ CreateTableFromCsvCall
    \/ Return

Spec == Init /\ [][Next]_vars

(***************************************************************************)
(* upsert_table_from_csv, one warehouse call per step                      *)
(***************************************************************************)
TableNames == {<<"t">>}

DefaultSuffix == <<"_", "t", "e", "m", "p">>

FieldNames == {<<"i", "d">>, <<"I", "d">>, <<"a">>, <<"b">>}

\* the field names of a table differ in more than letter case
TargetSchemas ==
    {f \in SeqsUpTo(FieldNames, MaxColumns) :
        \A i, j \in 1..Len(f) : Lower(f[i]) = Lower(f[j]) => i = j}

\* outcomes of a call that names a table: not found only if it is absent
LookupOutcomes(name) ==
    IF name \in bq_tables
    THEN {"none", "GoogleAPIError", "Exception"}
    ELSE {"NotFound", "GoogleAPIError", "Exception"}

LoadOutcomes == {"none", "GoogleAPIError", "Exception"}

Called(call, table, detail, outcome) ==
    [call |-> call, table |-> table, detail |-> detail, outcome |-> outcome]

Target == args.table_name

Staging == TempTableName(args.table_name, args.temp_table_suffix)

UpsertCall ==
    /\ UNCHANGED <<serviceVars, poolVars, mainVars>>
    /\ op = "idle"
    /\ \E table_name \in TableNames, schema \in TargetSchemas :
       \E existing \in SUBSET {table_name, TempTableName(table_name, DefaultSuffix)} :
        /\ table_name \notin existing => schema = <<>>
        /\ op' = "upsert_table_from_csv"
        /\ args' = [table_name |-> table_name,
                    temp_table_suffix |-> DefaultSuffix,
                    existing |-> existing,
                    schema |-> schema]
        /\ bq_tables' = existing
    /\ ret' = <<>>
    /\ pc' = "table_exists"
    /\ loaded' = {}
    /\ trace' = <<>>

\* line 206: table_exists(dataset_name, table_name)
UpsertTableExists ==
    /\ UNCHANGED <<serviceVars, poolVars, mainVars>>
    /\ pc = "table_exists"
    /\ \E lookup \in LookupOutcomes(Target) :
        LET r == TableExists(lookup)
        IN  /\ trace' = Append(trace, Called("get_table", Target, <<>>, lookup))
            /\ IF r.raised
               THEN pc' = "done" /\ ret' = UpsertFails(lookup)
               ELSE pc' = AfterExistsCheck(r.value) /\ ret' = ret
    /\ UNCHANGED <<op, args, bq_tables, loaded>>

\* lines 208-212: return create_table_from_csv(..., "WRITE_TRUNCATE")
UpsertCreate ==
    /\ UNCHANGED <<serviceVars, poolVars, mainVars>>
    /\ pc = "create"
    /\ \E load \in LoadOutcomes :
        LET r == CreateTableFromCsv(load)
        IN  /\ trace' = Append(trace, Called("load", Target, "WRITE_TRUNCATE", load))
            /\ bq_tables' = IF load = "none" THEN bq_tables \cup {Target} ELSE bq_tables
            /\ loaded' = IF load = "none" THEN loaded \cup {Target} ELSE loaded
            /\ ret' = IF r.raised THEN UpsertFails(load) ELSE r
    /\ pc' = "done"
    /\ UNCHANGED <<op, args>>

\* lines 218-221: load the new data into the temp table
UpsertLoadStaging ==
    /\ UNCHANGED <<serviceVars, poolVars, mainVars>>
    /\ pc = "load_staging"
    /\ \E load \in LoadOutcomes :
        LET r == CreateTableFromCsv(load)
        IN  /\ trace' = Append(trace, Called("load", Staging, "WRITE_TRUNCATE", load))
            /\ bq_tables' = IF load = "none" THEN bq_tables \cup {Staging} ELSE bq_tables
            /\ loaded' = IF load = "none" THEN loaded \cup {Staging} ELSE loaded
            /\ IF r.raised THEN pc' = "done" /\ ret' = UpsertFails(load)
               ELSE IF ~r.value THEN pc' = "done" /\ ret' = Returns(FALSE)
               ELSE pc' = "get_target" /\ ret' = ret
    /\ UNCHANGED <<op, args>>

\* lines 225-231: get_table(target) and the check of its schema
UpsertGetTarget ==
    /\ UNCHANGED <<serviceVars, poolVars, mainVars>>
    /\ pc = "get_target"
    /\ \E lookup \in LookupOutcomes(Target) :
        /\ trace' = Append(trace, Called("get_table", Target, <<>>, lookup))
        /\ IF lookup # "none" THEN pc' = "done" /\ ret' = UpsertFails(lookup)
           ELSE IF args.schema = <<>> THEN pc' = "done" /\ ret' = Returns(FALSE)
           ELSE pc' = "cleanup_lookup" /\ ret' = ret
    /\ UNCHANGED <<op, args, bq_tables, loaded>>

\* lines 244-247 and 253-255: get_table(temp table) under a bare except
UpsertCleanupLookup ==
    /\ UNCHANGED <<serviceVars, poolVars, mainVars>>
    /\ pc = "cleanup_lookup"
    /\ \E lookup \in LookupOutcomes(Staging) :
        /\ trace' = Append(trace, Called("get_table", Staging, <<>>, lookup))
        /\ pc' = IF lookup = "none" THEN "cleanup_delete" ELSE "merge"
    /\ UNCHANGED <<op, args, ret, bq_tables, loaded>>

\* lines 248-255: delete_table(temp table) under the same bare except
UpsertCleanupDelete ==
    /\ UNCHANGED <<serviceVars, poolVars, mainVars>>
    /\ pc = "cleanup_delete"
    /\ \E delete \in LookupOutcomes(Staging) :
        /\ trace' = Append(trace, Called("delete_table", Staging, <<>>, delete))
        /\ bq_tables' = IF delete = "none" THEN bq_tables \ {Staging} ELSE bq_tables
        /\ loaded' = IF delete = "none" THEN loaded \ {Staging} ELSE loaded
    /\ pc' = "merge"
    /\ UNCHANGED <<op, args, ret>>

\* lines 258-280: the MERGE query and the wait for its result
UpsertMerge ==
    /\ UNCHANGED <<serviceVars, poolVars, mainVars>>
    /\ pc = "merge"
    /\ \E query \in LookupOutcomes(Staging) :
        /\ trace' = Append(trace, Called("query", Target,
                               MergeStatement(Target, Staging, args.schema), query))
        /\ IF query = "none" THEN pc' = "drop_staging" /\ ret' = ret
           ELSE pc' = "done" /\ ret' = UpsertFails(query)
    /\ UNCHANGED <<op, args, bq_tables, loaded>>

\* lines 283-288: delete_table(temp table), return True
UpsertDropStaging ==
    /\ UNCHANGED <<serviceVars, poolVars, mainVars>>
    /\ pc = "drop_staging"
    /\ \E delete \in LookupOutcomes(Staging) :
        /\ trace' = Append(trace, Called("delete_table", Staging, <<>>, delete))
        /\ bq_tables' = IF delete = "none" THEN bq_tables \ {Staging} ELSE bq_tables
        /\ loaded' = IF delete = "none" THEN loaded \ {Staging} ELSE loaded
        /\ ret' = IF delete = "none" THEN Returns(TRUE) ELSE UpsertFails(delete)
    /\ pc' = "done"
    /\ UNCHANGED <<op, args>>

\* the caller has taken the result of the upsert
UpsertReturn ==
    /\ UNCHANGED <<serviceVars, poolVars, mainVars>>
    /\ pc = "done"
    /\ op' = "idle"
    /\ args' = <<>>
    /\ ret' = <<>>
    /\ pc' = "idle"
    /\ bq_tables' = {}
    /\ loaded' = {}
    /\ trace' = <<>>

NextUpsert ==
    \/ UpsertCall
    \/ UpsertTableExists
    \/ UpsertCreate
    \/ UpsertLoadStaging
    \/ UpsertGetTarget
    \/ UpsertCleanupLookup
    \/ UpsertCleanupDelete
    \/ UpsertMerge
    \/ UpsertDropStaging
    \/ UpsertReturn

SpecUpsert == Init /\ [][NextUpsert]_vars

(***************************************************************************)
(* process_service: the thread pool of the files of one service            *)
(***************************************************************************)
\* main.py:253, the cap on the workers of one service
FileWorkerCap == 10

Min(a, b) == IF a <= b THEN a ELSE b

Range(f) == {f[i] : i \in DOMAIN f}

\* what the warehouse does for one file: the answer of table_exists, and
\* whether the write (upsert or create) returns True, returns False or raises
WriteOutcomes == [table_exists : BOOLEAN, write : {"true", "false", "raises"}]

SpecificTables == {None, <<"a">>, <<"z">>}

\* the dict of the except branches: process_single_file, the collecting
\* loop and the sequential loop build the same one
FailedResult(csv_file) ==
    [file_path  |-> csv_file,
     table_name |-> FileTableName(csv_file),
     operation  |-> "unknown",
     success    |-> FALSE,
     error      |-> TRUE]

\* process_single_file, the body of the try block
ProcessSingleFileBody(csv_file, o) ==
    IF o.write = "raises" THEN Raises
    ELSE Returns([file_path  |-> csv_file,
                  table_name |-> FileTableName(csv_file),
                  operation  |-> IF o.table_exists THEN "upsert" ELSE "create",
                  success    |-> (o.write = "true")])

\* variant of ProcessSingleFile without the except clause
ProcessSingleFile_NoCatch(csv_file, o) ==
    ProcessSingleFileBody(csv_file, o)

\* process_single_file, try / except Exception: return the failed dict
ProcessSingleFile(csv_file, o) ==
    LET body == ProcessSingleFileBody(csv_file, o)
    IN  IF body.raised THEN Returns(FailedResult(csv_file)) ELSE body

\* results after a file_result has been appended (lines 274-280, 343-349)
WithFileResult(results, file_result) ==
    IF file_result.success
    THEN [results EXCEPT !.files_results = Append(@, file_result),
                         !.files_processed = @ + 1]
    ELSE [results EXCEPT !.files_results = Append(@, file_result),
                         !.status = "warning",
                         !.message = "Some files failed to process"]

\* results after an except branch has appended its dict (lines 281-295, 351-365)
WithFailure(results, csv_file) ==
    [results EXCEPT !.files_results = Append(@, FailedResult(csv_file)),
                    !.status = "warning",
                    !.message = "Some files failed to process"]

Skipped(message) ==
    [status |-> "skipped", message |-> message, files_processed |-> 0]

\* lines 223-229
StartResults ==
    [status |-> "success", message |-> "Processing completed",
     files_processed |-> 0, files_results |-> <<>>]

\* lines 232-238: the filter on specific_table
FilterFiles(csv_files, specific_table) ==
    IF specific_table # None
    THEN SelectSeq(csv_files, LAMBDA f : FileTableName(f) = specific_table)
    ELSE csv_files

\* line 253: max_file_workers = min(len(csv_files), 10), on the number of files
MaxFileWorkers(file_count) ==
    Min(file_count, FileWorkerCap)

\* lines 300-365: the body of the inner loop for one file
SequentialStep(results, csv_file, o) ==
    IF o.write = "raises"
    THEN WithFailure(results, csv_file)
    ELSE WithFileResult(results,
            [file_path  |-> csv_file,
             table_name |-> FileTableName(csv_file),
             operation  |-> IF o.table_exists THEN "upsert" ELSE "create",
             success    |-> (o.write = "true")])

\* lines 299-365: the inner loop over the first n files
RECURSIVE SequentialInner(_, _, _, _)
SequentialInner(results, csv_files, obs, n) ==
    IF n = 0 THEN results
    ELSE SequentialStep(SequentialInner(results, csv_files, obs, n - 1),
                        csv_files[n], obs[csv_files[n]])

\* lines 297-367: the outer loop, which runs the inner loop once per file
RECURSIVE SequentialOuter(_, _, _, _)
SequentialOuter(results, csv_files, obs, m) ==
    IF m = 0 THEN results
    ELSE SequentialInner(SequentialOuter(results, csv_files, obs, m - 1),
                         csv_files, obs, Len(csv_files))

\* variant of UsesPool that keeps two files on the main thread
UsesPool_OverTwo(max_file_workers) ==
    max_file_workers > 2

\* line 255: if max_file_workers > 1
UsesPool(max_file_workers) ==
    max_file_workers > 1

Running == {i \in DOMAIN svc_futures : svc_futures[i].state = "running"}

Queued == {i \in DOMAIN svc_futures : svc_futures[i].state = "queued"}

Finished == {i \in DOMAIN svc_futures : svc_futures[i].state = "finished"}

\* lines 210-268: the listing, the filter, the choice of the branch and the
\* submission of every file to the executor
ProcessServiceCall ==
    /\ op = "idle"
    /\ UNCHANGED <<upsertVars, poolVars, mainVars>>
    /\ \E csv_files \in Listings(CsvPaths), specific_table \in SpecificTables :
       \E obs \in [Range(csv_files) -> WriteOutcomes] :
        LET filtered == FilterFiles(csv_files, specific_table)
        IN  /\ op' = "process_service"
            /\ args' = [csv_files |-> csv_files, specific_table |-> specific_table,
                        obs |-> obs]
            /\ svc_collected' = {}
            /\ IF csv_files = <<>>
               THEN /\ ret' = Skipped("No CSV files found")
                    /\ svc_pc' = "done"
                    /\ UNCHANGED <<svc_files, svc_futures, svc_results>>
               ELSE IF filtered = <<>>
               THEN /\ ret' = Skipped("No CSV file found for table")
                    /\ svc_pc' = "done"
                    /\ UNCHANGED <<svc_files, svc_futures, svc_results>>
               ELSE /\ ret' = <<>>
                    /\ svc_files' = filtered
                    /\ svc_results' = StartResults
                    /\ svc_futures' = [i \in 1..Len(filtered) |-> [state |-> "queued"]]
                    /\ svc_pc' = IF UsesPool(MaxFileWorkers(Len(filtered)))
                                 THEN "collecting" ELSE "sequential"

\* a free worker of the executor takes the oldest queued call
WorkerStart ==
    /\ svc_pc = "collecting"
    /\ Queued # {}
    /\ Cardinality(Running) < MaxFileWorkers(Len(svc_files))
    /\ LET i == CHOOSE q \in Queued : \A r \in Queued : q <= r
       IN  svc_futures' = [svc_futures EXCEPT ![i] = [state |-> "running"]]
    /\ UNCHANGED <<op, args, ret, upsertVars, poolVars, mainVars, svc_pc, svc_files, svc_collected, svc_results>>

\* a worker comes to the end of process_single_file
WorkerFinish ==
    /\ svc_pc = "collecting"
    /\ \E i \in Running :
        svc_futures' = [svc_futures EXCEPT
            ![i] = [state  |-> "finished",
                    result |-> ProcessSingleFile(svc_files[i], args.obs[svc_files[i]])]]
    /\ UNCHANGED <<op, args, ret, upsertVars, poolVars, mainVars, svc_pc, svc_files, svc_collected, svc_results>>

\* lines 270-295: as_completed hands over a finished future; in the except
\* branch csv_file is still the last file of the submission loop
CollectResult ==
    /\ svc_pc = "collecting"
    /\ \E i \in Finished \ svc_collected :
        /\ svc_collected' = svc_collected \cup {i}
        /\ svc_results' =
              IF svc_futures[i].result.raised
              THEN WithFailure(svc_results, svc_files[Len(svc_files)])
              ELSE WithFileResult(svc_results, svc_futures[i].result.value)
    /\ UNCHANGED <<op, args, ret, upsertVars, poolVars, mainVars, svc_pc, svc_files, svc_futures>>

\* lines 296-367: the two loops over csv_files, one inside the other, run
\* by the main thread when there is no pool
SequentialFile ==
    /\ svc_pc = "sequential"
    /\ LET done == SequentialOuter(svc_results, svc_files, args.obs, Len(svc_files))
       IN  /\ svc_results' = done
           /\ ret' = done
    /\ svc_pc' = "done"
    /\ UNCHANGED <<op, args, upsertVars, poolVars, mainVars, svc_files, svc_futures, svc_collected>>

\* line 369, after the with block: every future has been collected
ParallelReturn ==
    /\ svc_pc = "collecting"
    /\ svc_collected = DOMAIN svc_futures
    /\ ret' = svc_results
    /\ svc_pc' = "done"
    /\ UNCHANGED <<op, args, upsertVars, poolVars, mainVars, svc_files, svc_futures, svc_collected, svc_results>>

\* the caller has taken the result of process_service
ServiceReturn ==
    /\ svc_pc = "done"
    /\ op' = "idle"
    /\ args' = <<>>
    /\ ret' = <<>>
    /\ svc_pc' = "idle"
    /\ svc_files' = <<>>
    /\ svc_futures' = <<>>
    /\ svc_collected' = {}
    /\ svc_results' = <<>>
    /\ UNCHANGED <<upsertVars, poolVars, mainVars>>

NextService ==
    \/ ProcessServiceCall
    \/ WorkerStart
    \/ WorkerFinish
    \/ CollectResult
    \/ SequentialFile
    \/ ParallelReturn
    \/ ServiceReturn

SpecService == Init /\ [][NextService]_vars

(***************************************************************************)
(* main: the pool of services over the pools of files                      *)
(***************************************************************************)
\* main.py:596, the cap on the services processed at once
ServiceWorkerCap == 5

\* bigquery_client.py:46, the pool size when the environment sets none
DefaultPoolSize == 50

\* line 596: max_workers = min(len(services), 5), on the number of services
MaxServiceWorkers(service_count) ==
    Min(service_count, ServiceWorkerCap)

\* BigQueryClient.__init__: the value of GOOGLE_CLOUD_CONNECTION_POOL_SIZE
\* if the environment has it, else 50
PoolSize(env) ==
    IF env.set THEN env.value ELSE DefaultPoolSize

Environments ==
    {[set |-> FALSE, value |-> 0]} \cup {[set |-> TRUE, value |-> v] : v \in {10, 50}}

\* the services of a run, each given by the number of csv files its listing
\* returns: one service with many files, or many services with a few
RunShapes ==
    {<<n>> : n \in 0..MaxRunFiles}
        \cup {[s \in 1..k |-> n] : k \in 2..MaxRunServices, n \in 1..2}

ServicesRunning == {s \in DOMAIN run_services : run_services[s] = "running"}

ServicesQueued == {s \in DOMAIN run_services : run_services[s] = "queued"}

\* initialize_clients and lines 585-612: the client is built and every
\* service is submitted to the executor
MainCall ==
    /\ op = "idle"
    /\ UNCHANGED <<upsertVars, serviceVars, mainVars>>
    /\ \E env \in Environments, services \in RunShapes :
        /\ op' = "main"
        /\ args' = [env |-> env, services |-> services]
        /\ pool_size' = PoolSize(env)
        /\ run_services' = [s \in DOMAIN services |-> "queued"]
        /\ run_remaining' = services
        /\ run_inflight' = [s \in DOMAIN services |-> 0]
    /\ ret' = <<>>

\* a free worker of the service executor takes the oldest queued service
ServiceStart ==
    /\ op = "main"
    /\ ServicesQueued # {}
    /\ Cardinality(ServicesRunning) < MaxServiceWorkers(Len(args.services))
    /\ LET s == CHOOSE q \in ServicesQueued : \A r \in ServicesQueued : q <= r
       IN  run_services' = [run_services EXCEPT ![s] = "running"]
    /\ UNCHANGED <<op, args, ret, upsertVars, serviceVars, mainVars, pool_size,
                   run_remaining, run_inflight>>

\* a free file worker of a running service takes its next file
FileStart ==
    /\ op = "main"
    /\ \E s \in ServicesRunning :
        /\ run_remaining[s] > 0
        /\ run_inflight[s] < MaxFileWorkers(args.services[s])
        /\ run_remaining' = [run_remaining EXCEPT ![s] = @ - 1]
        /\ run_inflight' = [run_inflight EXCEPT ![s] = @ + 1]
    /\ UNCHANGED <<op, args, ret, upsertVars, serviceVars, mainVars, pool_size, run_services>>

\* the load of a file ends
FileFinish ==
    /\ op = "main"
    /\ \E s \in ServicesRunning :
        /\ run_inflight[s] > 0
        /\ run_inflight' = [run_inflight EXCEPT ![s] = @ - 1]
    /\ UNCHANGED <<op, args, ret, upsertVars, serviceVars, mainVars, pool_size,
                   run_services, run_remaining>>

\* process_service returns: no file of the service is left or in flight
ServiceFinish ==
    /\ op = "main"
    /\ \E s \in ServicesRunning :
        /\ run_remaining[s] = 0
        /\ run_inflight[s] = 0
        /\ run_services' = [run_services EXCEPT ![s] = "finished"]
    /\ UNCHANGED <<op, args, ret, upsertVars, serviceVars, mainVars, pool_size,
                   run_remaining, run_inflight>>

\* lines 609-612 done: every service has been collected
MainReturn ==
    /\ op = "main"
    /\ \A s \in DOMAIN run_services : run_services[s] = "finished"
    /\ op' = "idle"
    /\ args' = <<>>
    /\ ret' = <<>>
    /\ pool_size' = 0
    /\ run_services' = <<>>
    /\ run_remaining' = <<>>
    /\ run_inflight' = <<>>
    /\ UNCHANGED <<upsertVars, serviceVars, mainVars>>

NextPools ==
    \/ MainCall
    \/ ServiceStart
    \/ FileStart
    \/ FileFinish
    \/ ServiceFinish
    \/ MainReturn

SpecPools == Init /\ [][NextPools]_vars

(***************************************************************************)
(* main, phase by phase: checks, datasets, loads, validation, report       *)
(***************************************************************************)
ServiceNames == << <<"s1">>, <<"s2">>, <<"s3">> >>

\* the "services" list of the configuration file
ConfiguredServices == SubSeq(ServiceNames, 1, MaxMainServices)

ConfigFiles == {"valid", "missing", "malformed", "empty"}

\* load_config: the parsed file, or {} when open or json.load raised; an
\* empty file content {} parses to {} as well
LoadConfig(config_file) ==
    IF config_file \in {"missing", "malformed"} THEN <<>>
    ELSE IF config_file = "empty" THEN <<>>
    ELSE [services |-> ConfiguredServices]

\* variant of MainChecks without the check of --table
MainChecks_NoTableCheck(config, a) ==
    IF DOMAIN config = {} THEN [exit |-> TRUE, services |-> <<>>]
    ELSE IF a.service # None /\ a.service \notin Range(config.services)
    THEN [exit |-> TRUE, services |-> <<>>]
    ELSE IF a.rerun /\ a.service = None THEN [exit |-> TRUE, services |-> <<>>]
    ELSE [exit |-> FALSE,
          services |-> IF a.service # None THEN <<a.service>> ELSE config.services]

\* main, lines 541-583: the checks that end the run with exit code 1, and
\* the list of services the run is about
MainChecks(config, a) ==
    IF DOMAIN config = {} THEN [exit |-> TRUE, services |-> <<>>]
    ELSE IF a.service # None /\ a.service \notin Range(config.services)
    THEN [exit |-> TRUE, services |-> <<>>]
    ELSE IF a.table # None /\ a.service = None THEN [exit |-> TRUE, services |-> <<>>]
    ELSE IF a.rerun /\ a.service = None THEN [exit |-> TRUE, services |-> <<>>]
    ELSE [exit |-> FALSE,
          services |-> IF a.service # None THEN <<a.service>> ELSE config.services]

\* line 601: specific_table = args.table if args.rerun else None
SpecificTable(a) ==
    IF a.rerun THEN a.table ELSE None

\* line 618: if args.rerun and args.table
ValidatesSingleTable(a) ==
    a.rerun /\ a.table # None

\* process_service seen from main: the dict it returns when every write of
\* the service ends the same way
ServiceResult(service, csv_files, specific_table, write) ==
    LET filtered == FilterFiles(csv_files, specific_table)
    IN  IF csv_files = <<>> \/ filtered = <<>>
        THEN [service |-> service, status |-> "skipped", files_processed |-> 0]
        ELSE [service |-> service,
              status |-> IF write = "true" THEN "success" ELSE "warning",
              files_processed |-> IF write = "true" THEN Len(filtered) ELSE 0]

Effect(kind, service, detail) ==
    [kind |-> kind, service |-> service, detail |-> detail]

\* create_datasets: one create_dataset per service, in order
RECURSIVE DatasetEffects(_, _)
DatasetEffects(services, n) ==
    IF n = 0 THEN <<>>
    ELSE Append(DatasetEffects(services, n - 1),
                Effect("create_dataset", services[n], <<>>))

\* the loads of the files of one service
RECURSIVE LoadEffects(_, _, _)
LoadEffects(service, csv_files, n) ==
    IF n = 0 THEN <<>>
    ELSE Append(LoadEffects(service, csv_files, n - 1),
                Effect("load", service, csv_files[n]))

\* variant of ResultKey that keys a result by the order of collection
ResultKey_ByPosition(result, position) ==
    main_futures[position].service

\* line 616: processing_results[result["service"]] = result
ResultKey(result, position) ==
    result.service

\* variant of ProcessingDone that goes on after the first collected result
ProcessingDone_FirstCollected(futures) ==
    \E i \in DOMAIN futures : futures[i].state = "collected"

\* lines 598-616: the with block ends when every future has been collected
ProcessingDone(futures) ==
    \A i \in DOMAIN futures : futures[i].state = "collected"

\* the CLI arguments and what the bucket and the warehouse hold for the run
MainArgs ==
    [config_file   : ConfigFiles,
     service       : {None, <<"s1">>, <<"zz">>},
     table         : {None, <<"a">>},
     rerun         : BOOLEAN,
     validate_only : BOOLEAN,
     csv_files     : Listings(CsvPaths),
     writes        : [Range(ConfiguredServices) -> {"true", "false", "raises"}]]

\* lines 506-583: arguments, configuration, clients, checks
MainRunCall ==
    /\ op = "idle"
    /\ UNCHANGED <<upsertVars, serviceVars, poolVars>>
    /\ \E a \in MainArgs :
        LET c == MainChecks(LoadConfig(a.config_file), a)
        IN  /\ op' = "main_run"
            /\ args' = a
            /\ main_futures' = [i \in 1..Len(c.services) |->
                                   [service |-> c.services[i], state |-> "queued"]]
            /\ IF c.exit
               THEN main_pc' = "done" /\ ret' = Returns(1)
               ELSE main_pc' = "create_datasets" /\ ret' = <<>>
    /\ events' = <<>>
    /\ processing_results' = <<>>
    /\ validation_results' = <<>>

SelectedServices == [i \in DOMAIN main_futures |-> main_futures[i].service]

\* lines 585-591: create_datasets, then the branch on --validate-only
MainCreateDatasets ==
    /\ main_pc = "create_datasets"
    /\ events' = events \o DatasetEffects(SelectedServices, Len(SelectedServices))
    /\ main_pc' = IF ~args.validate_only THEN "processing" ELSE "validate"
    /\ UNCHANGED <<op, args, ret, upsertVars, serviceVars, poolVars,
                   main_futures, processing_results, validation_results>>

MainRunning == {i \in DOMAIN main_futures : main_futures[i].state = "running"}

MainQueued == {i \in DOMAIN main_futures : main_futures[i].state = "queued"}

\* a free worker of the service executor starts process_service, which
\* lists the files of the service
MainServiceStart ==
    /\ main_pc = "processing"
    /\ MainQueued # {}
    /\ Cardinality(MainRunning) < MaxServiceWorkers(Len(main_futures))
    /\ LET i == CHOOSE q \in MainQueued : \A r \in MainQueued : q <= r
       IN  /\ main_futures' = [main_futures EXCEPT ![i].state = "running"]
           /\ events' = Append(events, Effect("list", main_futures[i].service, <<>>))
    /\ UNCHANGED <<op, args, ret, upsertVars, serviceVars, poolVars,
                   main_pc, processing_results, validation_results>>

\* process_service loads the selected files and returns its dict
MainServiceFinish ==
    /\ main_pc = "processing"
    /\ \E i \in MainRunning :
        LET service  == main_futures[i].service
            filtered == FilterFiles(args.csv_files, SpecificTable(args))
        IN  /\ events' = events \o LoadEffects(service, filtered, Len(filtered))
            /\ main_futures' = [main_futures EXCEPT ![i] =
                  [service |-> service, state |-> "finished",
                   result  |-> ServiceResult(service, args.csv_files,
                                             SpecificTable(args), args.writes[service])]]
    /\ UNCHANGED <<op, args, ret, upsertVars, serviceVars, poolVars,
                   main_pc, processing_results, validation_results>>

\* lines 613-616: as_completed hands over a finished service
MainCollect ==
    /\ main_pc = "processing"
    /\ \E i \in DOMAIN main_futures :
        /\ main_futures[i].state = "finished"
        /\ LET result   == main_futures[i].result
               position == Cardinality(DOMAIN processing_results) + 1
           IN  /\ processing_results' =
                      (ResultKey(result, position) :> result) @@ processing_results
               /\ events' = Append(events, Effect("collect", result.service, <<>>))
        /\ main_futures' = [main_futures EXCEPT ![i].state = "collected"]
    /\ UNCHANGED <<op, args, ret, upsertVars, serviceVars, poolVars,
                   main_pc, validation_results>>

\* the with block of lines 598-616 is left
MainProcessingDone ==
    /\ main_pc = "processing"
    /\ ProcessingDone(main_futures)
    /\ main_pc' = "validate"
    /\ UNCHANGED <<op, args, ret, upsertVars, serviceVars, poolVars,
                   events, main_futures, processing_results, validation_results>>

\* what the validation of one service comes to: with an empty listing both
\* batch validations return "failed" before any warehouse call; otherwise
\* each ends "success" or "warning", or a warehouse call raises an exception
\* that the validator does not catch
BatchOutcomes(csv_files) ==
    IF csv_files = <<>>
    THEN {[raised |-> FALSE, completeness |-> "failed", correctness |-> "failed"]}
    ELSE [raised : {FALSE}, completeness : {"success", "warning"},
          correctness : {"success", "warning"}]
            \cup {[raised |-> TRUE, completeness |-> "", correctness |-> ""]}

\* what the validation of one file comes to
SingleOutcomes ==
    [raised : {FALSE}, completeness : {"success", "failed"},
     correctness : {"success", "warning", "failed"}]
        \cup {[raised |-> TRUE, completeness |-> "", correctness |-> ""]}

\* lines 478-487 and 432-437: the status of a validated unit
UnitStatus(o) ==
    IF o.completeness = "success" /\ o.correctness = "success"
    THEN "success" ELSE "warning"

\* validate_single_service_table, lines 399-404: the first file of the
\* listing whose table name is table_name, 0 when there is none
FirstMatch(csv_files, table_name) ==
    IF \E i \in 1..Len(csv_files) : FileTableName(csv_files[i]) = table_name
    THEN CHOOSE i \in 1..Len(csv_files) :
            /\ FileTableName(csv_files[i]) = table_name
            /\ \A j \in 1..(i - 1) : FileTableName(csv_files[j]) # table_name
    ELSE 0

\* validate_results, lines 463-496: the next service of the loop
MainValidateService ==
    /\ main_pc = "validate"
    /\ ~ValidatesSingleTable(args)
    /\ LET k       == Len(validation_results) + 1
           service == SelectedServices[k]
       IN  /\ events' = Append(events, Effect("validate", service, <<>>))
           /\ \E o \in BatchOutcomes(args.csv_files) :
                IF o.raised
                THEN /\ ret' = Raises
                     /\ main_pc' = "done"
                     /\ UNCHANGED validation_results
                ELSE /\ ret' = ret
                     /\ validation_results' = Append(validation_results,
                            [service |-> service, completeness |-> o.completeness,
                             correctness |-> o.correctness, status |-> UnitStatus(o)])
                     /\ main_pc' = IF k = Len(SelectedServices) THEN "report" ELSE "validate"
    /\ UNCHANGED <<op, args, upsertVars, serviceVars, poolVars,
                   main_futures, processing_results>>

\* validate_single_service_table, lines 394-439
MainValidateTable ==
    /\ main_pc = "validate"
    /\ ValidatesSingleTable(args)
    /\ LET k == FirstMatch(args.csv_files, args.table)
       IN  IF k = 0
           THEN /\ events' = Append(events, Effect("list", args.service, <<>>))
                /\ validation_results' =
                      <<[service |-> args.service, completeness |-> "",
                         correctness |-> "", status |-> "failed"]>>
                /\ ret' = ret
                /\ main_pc' = "report"
           ELSE /\ events' = events \o <<Effect("list", args.service, <<>>),
                                         Effect("validate_table", args.service,
                                                args.csv_files[k])>>
                /\ \E o \in SingleOutcomes :
                     IF o.raised
                     THEN /\ ret' = Raises
                          /\ main_pc' = "done"
                          /\ UNCHANGED validation_results
                     ELSE /\ ret' = ret
                          /\ validation_results' =
                                <<[service |-> args.service,
                                   completeness |-> o.completeness,
                                   correctness |-> o.correctness,
                                   status |-> UnitStatus(o)]>>
                          /\ main_pc' = "report"
    /\ UNCHANGED <<op, args, upsertVars, serviceVars, poolVars,
                   main_futures, processing_results>>

\* lines 628-663: the report file, the summary, the exit code
MainWriteReport ==
    /\ main_pc = "report"
    /\ events' = Append(events, Effect("report", None, <<>>))
    /\ ret' = Returns(0)
    /\ main_pc' = "done"
    /\ UNCHANGED <<op, args, upsertVars, serviceVars, poolVars,
                   main_futures, processing_results, validation_results>>

\* the process has ended
MainRunReturn ==
    /\ main_pc = "done"
    /\ op' = "idle"
    /\ args' = <<>>
    /\ ret' = <<>>
    /\ main_pc' = "idle"
    /\ events' = <<>>
    /\ main_futures' = <<>>
    /\ processing_results' = <<>>
    /\ validation_results' = <<>>
    /\ UNCHANGED <<upsertVars, serviceVars, poolVars>>

\* Python's binding of a call: a TypeError is raised when a parameter
\* without a default is given no argument
Binds(required, given) == required \subseteq given

\* comparemssql_bq.main, the body of the try block (lines 76-157); a is what
\* the run would find: a connection string or none, the validation type and
\* the status each batch validation would return
CompareMssqlBody(a) ==
    IF ~Binds({"project_id", "location"}, {"project_id"}) THEN Raises
    ELSE IF ~a.has_connection_string THEN Returns(1)
    ELSE IF /\ a.validation_type \in {"completeness", "both"}
            /\ ~Binds({"dataset_name", "database_name"}, {"dataset_name", "tables"})
    THEN Raises
    ELSE IF /\ a.validation_type \in {"correctness", "both"}
            /\ ~Binds({"dataset_name", "database_name"}, {"dataset_name", "tables"})
    THEN Raises
    ELSE LET statuses ==
                 (IF a.validation_type \in {"completeness", "both"}
                  THEN {a.completeness} ELSE {})
                     \cup (IF a.validation_type \in {"correctness", "both"}
                           THEN {a.correctness} ELSE {})
         IN  Returns(IF "failed" \in statuses THEN 1 ELSE 0)

\* comparemssql_bq.main: except Exception: sys.exit(1)
CompareMssqlExit(a) ==
    LET body == CompareMssqlBody(a)
    IN  IF body.raised THEN Returns(1) ELSE body

CompareMssqlArgs ==
    [has_connection_string : BOOLEAN,
     validation_type : {"completeness", "correctness", "both"},
     completeness : {"success", "warning", "failed"},
     correctness : {"success", "warning", "failed"}]

\* a run of the comparison script
CompareMssqlMain ==
    /\ op = "idle"
    /\ UNCHANGED <<upsertVars, serviceVars, poolVars>>
    /\ \E a \in CompareMssqlArgs :
        /\ op' = "comparemssql_main"
        /\ args' = a
        /\ ret' = CompareMssqlExit(a)
    /\ main_pc' = "done"
    /\ UNCHANGED <<events, main_futures, processing_results, validation_results>>

NextMain ==
    \/ MainRunCall
    \/ CompareMssqlMain
    \/ MainCreateDatasets
    \/ MainServiceStart
    \/ MainServiceFinish
    \/ MainCollect
    \/ MainProcessingDone
    \/ MainValidateService
    \/ MainValidateTable
    \/ MainWriteReport
    \/ MainRunReturn

SpecMain == Init /\ [][NextMain]_vars

\* the runs of main together with the calls of process_service
NextRun ==
    \/ NextService
    \/ NextMain

SpecRun == Init /\ [][NextRun]_vars

(***************************************************************************)
(* Vocabulary of the properties                                            *)
(***************************************************************************)
CompletenessBatchOps ==
    {"validate_completeness_gcs", "validate_completeness_local",
     "validate_completeness_mssql"}

CorrectnessBatchOps ==
    {"validate_correctness_gcs", "validate_correctness_local",
     "validate_correctness_mssql"}

\* the call got as far as the loop over the datasets
HasResults(r) ==
    /\ "details" \in DOMAIN r
    /\ \/ "file_results" \in DOMAIN r.details
       \/ "table_results" \in DOMAIN r.details

\* the per-dataset results of a batch result
ResultsOf(r) ==
    IF "file_results" \in DOMAIN r.details
    THEN r.details.file_results ELSE r.details.table_results

\* the source row count of an observation or of a per-dataset result
SourceRows(x) == IF "csv_rows" \in DOMAIN x THEN x.csv_rows ELSE x.mssql_rows

\* the dataset a per-dataset result names
DatasetOf(x) == IF "file_path" \in DOMAIN x THEN x.file_path ELSE x.table_name

SourceSchema(o) == IF "csv_schema" \in DOMAIN o THEN o.csv_schema ELSE o.mssql_schema

TotalSourceRows(r) ==
    IF "total_csv_rows" \in DOMAIN r.details
    THEN r.details.total_csv_rows ELSE r.details.total_mssql_rows

RECURSIVE SumSourceRows(_)
SumSourceRows(results) ==
    IF results = <<>> THEN 0
    ELSE SourceRows(Head(results)) + SumSourceRows(Tail(results))

RECURSIVE SumBqRows(_)
SumBqRows(results) ==
    IF results = <<>> THEN 0
    ELSE Head(results).bq_rows + SumBqRows(Tail(results))

CountsEqual(o) == SourceRows(o) = o.bq_rows

\* the coarse type the synonym table gives a type name
Coarse(t) == DictGet(type_mappings, Upper(t), Upper(t))

DotCount(f) == Cardinality({i \in 1..Len(f) : f[i] = "."})

(***************************************************************************)
(* Properties                                                              *)
(***************************************************************************)
\* C1: in every batch completeness check over a non-empty list of datasets,
\* each dataset has one result whose rows_match is true, and whose status
\* is "success", exactly when its source count equals its destination
\* count, whatever table_exists reported; the batch status is "success"
\* when all counts are equal and "warning" otherwise.
C1_CompletenessVerdict ==
    (op \in CompletenessBatchOps /\ args.source # <<>>) =>
        /\ HasResults(ret)
        /\ Len(ResultsOf(ret)) = Len(args.source)
        /\ \A i \in 1..Len(args.source) :
               LET r == ResultsOf(ret)[i]
                   o == args.obs[i]
               IN  /\ DatasetOf(r) = args.source[i]
                   /\ r.table_exists = o.table_exists
                   /\ r.rows_match = CountsEqual(o)
                   /\ r.status = (IF CountsEqual(o) THEN "success" ELSE "failed")
        /\ ret.status = (IF \A i \in 1..Len(args.obs) : CountsEqual(args.obs[i])
                         THEN "success" ELSE "warning")

\* C1 witness: a two-dataset batch in which the first dataset's counts are
\* equal although its table is reported absent, and the second dataset's
\* counts differ although its table exists; the batch is a warning.
C1_Witness ==
    /\ op \in CompletenessBatchOps
    /\ Len(args.source) = 2
    /\ CountsEqual(args.obs[1]) /\ ~args.obs[1].table_exists
    /\ ~CountsEqual(args.obs[2]) /\ args.obs[2].table_exists
    /\ ret.status = "warning"
    /\ ResultsOf(ret)[1].rows_match /\ ~ResultsOf(ret)[2].rows_match

\* C2: in every batch check of either family, a discovery that yields zero
\* datasets gives status "failed" and no per-dataset results, while a
\* completeness batch whose datasets all count 0 on both sides gives
\* "success".
C2_ZeroDatasetsFail ==
    /\ (op \in CompletenessBatchOps \cup CorrectnessBatchOps /\ args.source = <<>>) =>
           (ret.status = "failed" /\ ~HasResults(ret))
    /\ (op \in CompletenessBatchOps /\ args.source # <<>>
        /\ \A i \in 1..Len(args.obs) :
               SourceRows(args.obs[i]) = 0 /\ args.obs[i].bq_rows = 0) =>
           ret.status = "success"

\* C3: in the result of a batch completeness check the aggregate source
\* counter is the sum of the per-dataset source counts and the aggregate
\* destination counter is the sum of the per-dataset destination counts.
C3_TotalsAreSums ==
    (op \in CompletenessBatchOps /\ HasResults(ret)) =>
        /\ TotalSourceRows(ret) = SumSourceRows(ResultsOf(ret))
        /\ ret.details.total_bq_rows = SumBqRows(ResultsOf(ret))

\* C3 witness: two datasets whose source and destination totals differ and
\* are not the count of a single dataset.
C3_Witness ==
    /\ op \in CompletenessBatchOps
    /\ HasResults(ret)
    /\ Len(ResultsOf(ret)) = 2
    /\ TotalSourceRows(ret) = 2
    /\ ret.details.total_bq_rows = 1
    /\ SourceRows(ResultsOf(ret)[1]) = 1
    /\ SourceRows(ResultsOf(ret)[2]) = 1

\* C4: in every batch correctness check that reached its datasets, a
\* checked dataset's status is "success" exactly when schema_match and
\* sample_match are both true and "failed" otherwise, and the batch status
\* is "success" exactly when every checked dataset succeeded and "warning"
\* otherwise.
C4_CorrectnessVerdict ==
    (op \in CorrectnessBatchOps /\ HasResults(ret)) =>
        /\ \A i \in 1..Len(ResultsOf(ret)) :
               LET r == ResultsOf(ret)[i]
               IN  r.status = (IF r.schema_match /\ r.sample_match
                               THEN "success" ELSE "failed")
        /\ ret.status = (IF \A i \in 1..Len(ResultsOf(ret)) :
                                ResultsOf(ret)[i].status = "success"
                         THEN "success" ELSE "warning")

\* C4 witness: a batch of two checked datasets, one passing both checks and
\* one whose schema matches but whose sample does not; the batch is a
\* warning.
C4_Witness ==
    /\ op \in CorrectnessBatchOps
    /\ HasResults(ret)
    /\ Len(ResultsOf(ret)) = 2
    /\ ResultsOf(ret)[1].status = "success"
    /\ ResultsOf(ret)[2].schema_match /\ ~ResultsOf(ret)[2].sample_match
    /\ ResultsOf(ret)[2].status = "failed"
    /\ ret.status = "warning"

\* C5: in every correctness check, batch or single-file, a dataset whose
\* destination table does not exist is skipped: no schema or sample is
\* fetched for it, it has no per-dataset result, and the returned status
\* counts it neither as a success nor as a failure.
C5_MissingTableSkipped ==
    /\ (op \in CorrectnessBatchOps /\ HasResults(ret)) =>
           \A i \in 1..Len(args.source) :
               ~args.obs[i].table_exists =>
                   /\ args.source[i] \notin ret.fetched
                   /\ \A k \in 1..Len(ResultsOf(ret)) :
                          DatasetOf(ResultsOf(ret)[k]) # args.source[i]
    /\ (op = "validate_single_file_correctness" /\ ~args.obs[1].table_exists) =>
           /\ ret.fetched = {}
           /\ ret.status \notin {"success", "failed"}

\* C6: when the destination schema of an existing table omits a column of
\* the source schema, the correctness result for that table has status
\* "failed", whatever the sample comparison gives, in the batch checks and
\* in the single-file check.
C6_OmittedColumnFails ==
    /\ (op \in CorrectnessBatchOps /\ HasResults(ret)) =>
           \A i \in 1..Len(args.source) :
               LET o == args.obs[i]
               IN  (o.table_exists
                    /\ DOMAIN SourceSchema(o) \ DOMAIN o.bq_schema # {}) =>
                       \E k \in 1..Len(ResultsOf(ret)) :
                           /\ DatasetOf(ResultsOf(ret)[k]) = args.source[i]
                           /\ ResultsOf(ret)[k].status = "failed"
    /\ (op = "validate_single_file_correctness"
        /\ args.obs[1].table_exists
        /\ DOMAIN args.obs[1].csv_schema \ DOMAIN args.obs[1].bq_schema # {}) =>
           ret.status = "failed"

\* C7: the column-name verdict of _compare_schemas is the same for (A, B)
\* and for (B, A), and it is a match exactly when the two key sets are
\* equal; a schema comparison never succeeds on different key sets.
C7_ColumnNamesSymmetric ==
    (op = "compare_schemas") =>
        /\ ret.names = ret.names_swapped
        /\ ret.names = (DOMAIN args.csv_schema = DOMAIN args.bq_schema)
        /\ ret.result => ret.names

\* C7 witness: the source columns are a proper subset of the destination
\* columns and the verdict is a mismatch in both orders.
C7_Witness ==
    /\ op = "compare_schemas"
    /\ DOMAIN args.csv_schema # DOMAIN args.bq_schema
    /\ DOMAIN args.csv_schema \subseteq DOMAIN args.bq_schema
    /\ DOMAIN args.csv_schema # {}
    /\ ~ret.names /\ ~ret.names_swapped /\ ~ret.result

\* C8: for one column, a type name matches itself whatever the case, a
\* source type matches the destination type the synonym table maps it to
\* (INT/INTEGER, VARCHAR/STRING, DECIMAL/NUMERIC), and two types of
\* different coarse classes do not match (STRING/FLOAT, INTEGER/FLOAT).
C8_TypeComparison ==
    (op = "compare_column_types") =>
        LET s == args.csv_type
            d == args.bq_type
        IN  /\ Upper(s) = Upper(d) => ret.result
            /\ <<Upper(s), Upper(d)>> \in type_mappings => ret.result
            /\ Coarse(s) # Coarse(d) => ~ret.result
            /\ (s = T_INT /\ d = T_INTEGER) => ret.result
            /\ (s = T_VARCHAR /\ d = T_STRING) => ret.result
            /\ (s = T_DECIMAL /\ d = T_NUMERIC) => ret.result
            /\ (s = T_STRING /\ d = T_FLOAT) => ~ret.result
            /\ (s = T_INTEGER /\ d = T_FLOAT) => ~ret.result
            /\ (s = t_string /\ d = T_STRING) => ret.result

\* C8 witness: a lower-case source name matched through the synonym table.
C8_Witness ==
    /\ op = "compare_column_types"
    /\ args.csv_type = t_varchar
    /\ args.bq_type = T_STRING
    /\ ret.result

\* C9 as claimed: for type names of the synonym table the verdict is the
\* same in both directions, and two names of the same coarse type match.
C9_BothDirections ==
    (op = "compare_column_types"
     /\ args.csv_type \in TableTypes /\ args.bq_type \in TableTypes) =>
        /\ ret.result = ret.swapped
        /\ Coarse(args.csv_type) = Coarse(args.bq_type) => ret.result

\* C9 as amended: the synonym table is applied to the source type only.
\* For type names of the table, the source type s matches the destination
\* type d exactly when s = d or the table maps s to d; two different names
\* never match in both directions, and two different vendor names of the
\* same coarse type (BIGINT/INT) or a coarse source name against a vendor
\* destination name (INTEGER/INT) do not match.
C9_SourceSideOnly ==
    (op = "compare_column_types"
     /\ args.csv_type \in TableTypes /\ args.bq_type \in TableTypes) =>
        LET s == args.csv_type
            d == args.bq_type
        IN  /\ ret.result = (s = d \/ <<s, d>> \in type_mappings)
            /\ (s # d /\ ret.result) => ~ret.swapped
            /\ (s = T_BIGINT /\ d = T_INT) => ~ret.result
            /\ (s = T_INTEGER /\ d = T_INT) => ~ret.result
            /\ (s = T_INT /\ d = T_INTEGER) => ret.result

\* C9 witness: INT as source against INTEGER as destination matches, the
\* swapped comparison does not.
C9_Witness ==
    /\ op = "compare_column_types"
    /\ args.csv_type = T_INT
    /\ args.bq_type = T_INTEGER
    /\ ret.result
    /\ ~ret.swapped

\* C10 as claimed: table-name extraction gives the same name under any
\* prefix, and applying it to its own result changes nothing, for every
\* file name.
C10_PrefixInvariantIdempotent ==
    (op = "extract_table_name") =>
        /\ ret.prefixed = ret.bare
        /\ ret.twice = ret.bare
        /\ ret.file_prefixed = ret.file_bare
        /\ ret.file_twice = ret.file_bare

\* C10 as amended: table-name extraction gives the same name under any
\* prefix, for every file name; applying it to its own result changes
\* nothing when the file name has at most one dot.
C10_PrefixInvariant ==
    (op = "extract_table_name") =>
        /\ ret.prefixed = ret.bare
        /\ ret.file_prefixed = ret.file_bare
        /\ ret.file_bare = ret.bare
        /\ DotCount(args.name) <= 1 =>
               (ret.twice = ret.bare /\ ret.file_twice = ret.file_bare)

\* C10 witness: a name with one extension under a prefix that itself holds
\* a dot and a slash yields the bare name.
C10_Witness ==
    /\ op = "extract_table_name"
    /\ args.name = <<"a", "a", ".", "a">>
    /\ args.prefix = <<".", "/", "a">>
    /\ ret.prefixed = <<"a", "a">>
    /\ ret.twice = <<"a", "a">>

SampleOps ==
    {"compare_sample_data_gcs", "compare_sample_data_local",
     "compare_sample_data_mssql"}

\* C11: in every sample comparison, an empty sample on the source side or
\* on the destination side, or a fetch of either sample that raised, makes
\* the comparison return false; the comparison never raises.
C11_SampleFailSoft ==
    (op \in SampleOps) =>
        /\ ~ret.raised
        /\ (\/ args.source_sample.raised
            \/ args.bq_sample.raised
            \/ FrameEmpty(args.source_sample)
            \/ FrameEmpty(args.bq_sample)) => ~ret.value

\* C11 witness: the source sample has rows and the destination query
\* raised; the comparison returned false.
C11_Witness ==
    /\ op \in SampleOps
    /\ ~args.source_sample.raised
    /\ ~FrameEmpty(args.source_sample)
    /\ args.bq_sample.raised
    /\ ~ret.raised
    /\ ~ret.value

\* C17: table_exists returns false only when the lookup reports the table
\* as not found; any other error of the lookup propagates to the caller.
C17_OtherErrorsPropagate ==
    (op = "table_exists") =>
        /\ (~ret.raised /\ ~ret.value) => args.lookup = "NotFound"
        /\ (args.lookup \in {"GoogleAPIError", "Exception"}) => ret.raised

\* C17 amended: table_exists never raises; it returns true exactly when the
\* lookup succeeds, and false for a table not found and for every other
\* error of the lookup.
C17_AnyErrorIsFalse ==
    (op = "table_exists") =>
        /\ ~ret.raised
        /\ ret.value <=> (args.lookup = "none")

\* C17 witness: the lookup failed with a generic API error and table_exists
\* returned false.
C17_Witness ==
    /\ op = "table_exists"
    /\ args.lookup = "GoogleAPIError"
    /\ ~ret.raised
    /\ ~ret.value

RowCountOps ==
    {"bq_get_row_count", "get_row_count_gcs", "get_row_count_local",
     "mssql_get_row_count"}

\* C18: no row count raises to its caller, and each returns 0 when its
\* query or its read failed, whatever the failure.
C18_RowCountFailSoft ==
    (op \in RowCountOps) =>
        /\ ~ret.raised
        /\ (args.query.error # "none") => ret.value = 0

\* the upsert went past the existence check onto the existing-target path
OnExistingTargetPath ==
    /\ op = "upsert_table_from_csv"
    /\ \E i \in 1..Len(trace) : trace[i].call = "load" /\ trace[i].table = Staging

\* C12: on the existing-target path every deletion of a staging table
\* comes before the load of the staging table, and when the merge is about
\* to run the staging table exists and holds the newly loaded data.
C12_StagingLoadedAtMerge ==
    (pc = "merge") =>
        /\ \A i, j \in 1..Len(trace) :
            (trace[i].call = "delete_table" /\ trace[j].call = "load") => i < j
        /\ Staging \in bq_tables
        /\ Staging \in loaded

\* C13: when upsert_table_from_csv has finished on the existing-target
\* path, with success or with failure, the staging table does not exist.
C13_NoStagingAfterReturn ==
    (pc = "done" /\ OnExistingTargetPath) => Staging \notin bq_tables

StepFailed(e) == e.outcome \in {"GoogleAPIError", "Exception"}

\* C14: a warehouse call of the upsert that fails is the last call the
\* upsert makes and the upsert then returns false; the upsert never raises.
C14_FailureAborts ==
    (op = "upsert_table_from_csv") =>
        /\ (pc = "done") => ~ret.raised
        /\ \A i \in 1..Len(trace) :
            StepFailed(trace[i]) =>
                /\ i = Len(trace)
                /\ pc = "done"
                /\ ret = Returns(FALSE)

\* C15: when the target table does not exist, the upsert makes one load,
\* into the target table with WRITE_TRUNCATE, and nothing after it: no
\* staging table is created, no merge runs, and the result is the success
\* flag of that load.
C15_AbsentTargetPlainLoad ==
    (pc = "done" /\ Target \notin args.existing) =>
        /\ Len(trace) = 2
        /\ trace[1].call = "get_table"
        /\ trace[2].call = "load"
        /\ trace[2].table = Target
        /\ trace[2].detail = "WRITE_TRUNCATE"
        /\ (Staging \in bq_tables) <=> (Staging \in args.existing)
        /\ (trace[2].outcome = "none") => ret = Returns(TRUE)
        /\ (trace[2].outcome = "GoogleAPIError") => ret = Returns(FALSE)

\* C15 witness: the target was absent, a table with the staging name was
\* there before, and the upsert returned true after its load.
C15_Witness ==
    /\ pc = "done"
    /\ Target \notin args.existing
    /\ Staging \in args.existing
    /\ Target \in loaded
    /\ ret = Returns(TRUE)

\* C16: the key of the MERGE is the first field of the target schema named
\* id in any letter case, or the first field when there is none; the UPDATE
\* clause sets every field but the key and the INSERT clause lists all
\* fields.
C16_MergeKeyAndColumns ==
    \A i \in 1..Len(trace) :
        (trace[i].call = "query") =>
            LET m      == trace[i].detail
                schema == args.schema
                ids    == {k \in 1..Len(schema) : Lower(schema[k]) = <<"i", "d">>}
            IN  /\ (ids # {}) => \E k \in ids : m.on = schema[k] /\ \A j \in ids : k <= j
                /\ (ids = {}) => m.on = schema[1]
                /\ m.update = SelectSeq(schema, LAMBDA c : c # m.on)
                /\ m.insert = schema
                /\ m.values = schema

\* C16 witness: the merge ran on a schema whose id field, written Id, is
\* not the first field.
C16_Witness ==
    /\ pc = "drop_staging"
    /\ Len(args.schema) = 2
    /\ args.schema[2] = <<"I", "d">>
    /\ trace[Len(trace)].call = "query"
    /\ trace[Len(trace)].detail.on = <<"I", "d">>
    /\ trace[Len(trace)].detail.update = <<args.schema[1]>>

\* the write of file f did not return True
FileFailed(f) == args.obs[f].write # "true"

\* C19: when process_service has gone through its files, files_results
\* holds one entry for every file, a failed one exactly for the files whose
\* load returned false or raised; files_processed counts the others, and the
\* status is warning when a file failed and success when none did.
C19_SiblingsUnaffected ==
    (svc_pc = "done" /\ ret.status # "skipped") =>
        /\ Len(ret.files_results) = Len(svc_files)
        /\ \A f \in Range(svc_files) :
            \E j \in 1..Len(ret.files_results) :
                /\ ret.files_results[j].file_path = f
                /\ ret.files_results[j].success = ~FileFailed(f)
        /\ ret.files_processed = Cardinality({f \in Range(svc_files) : ~FileFailed(f)})
        /\ ret.status = IF \E f \in Range(svc_files) : FileFailed(f)
                        THEN "warning" ELSE "success"

\* C19 witness: of two files loaded in parallel the first one submitted
\* raised and the second one succeeded; both are in files_results.
C19_Witness ==
    /\ svc_pc = "done"
    /\ Len(svc_files) = 2
    /\ args.obs[svc_files[1]].write = "raises"
    /\ args.obs[svc_files[2]].write = "true"
    /\ Len(ret.files_results) = 2
    /\ ret.files_processed = 1
    /\ ret.status = "warning"

RECURSIVE SumUpTo(_, _)
SumUpTo(f, n) ==
    IF n = 0 THEN 0 ELSE f[n] + SumUpTo(f, n - 1)

\* the loads in flight stay within the caps of the two executors
InFlightWithinCaps ==
    (op = "main") =>
        /\ \A s \in DOMAIN run_inflight :
            run_inflight[s] <= Min(args.services[s], FileWorkerCap)
        /\ Cardinality(ServicesRunning) <= Min(Len(args.services), ServiceWorkerCap)
        /\ SumUpTo(run_inflight, Len(run_inflight)) <= FileWorkerCap * ServiceWorkerCap

\* C20: during a run at most min(files of the service, 10) loads of one
\* service are in flight, at most min(services, 5) services are being
\* processed, at most 50 loads run at once, and the pool size of the
\* warehouse client is at least 50.
C20_PoolCoversInFlight ==
    /\ InFlightWithinCaps
    /\ (op = "main") => pool_size >= FileWorkerCap * ServiceWorkerCap

\* C27: the load job of create_table_from_csv is submitted with the
\* location the client was constructed with.
C27_LoadUsesClientLocation ==
    (op = "create_table_from_csv") => ret.job.location = args.location

\* the entries of files_results that name file f
EntriesOf(f) ==
    {j \in 1..Len(ret.files_results) : ret.files_results[j].file_path = f}

\* C30: when process_service returns for a non-empty list of selected
\* files, from the pool or from the main thread, files_results holds exactly
\* one entry per selected file, files_processed is the number of entries
\* with success true, and the status is success when every entry succeeded
\* and warning otherwise.
C30_ResultsInvariant ==
    (svc_pc = "done" /\ svc_files # <<>>) =>
        /\ "files_results" \in DOMAIN ret
        /\ Len(ret.files_results) = Len(svc_files)
        /\ \A f \in Range(svc_files) : Cardinality(EntriesOf(f)) = 1
        /\ ret.files_processed =
              Cardinality({j \in 1..Len(ret.files_results) : ret.files_results[j].success})
        /\ ret.status = IF \A j \in 1..Len(ret.files_results) : ret.files_results[j].success
                        THEN "success" ELSE "warning"

\* C30 witness: a single selected file went through the loops of the main
\* thread and its write raised.
C30_Witness ==
    /\ svc_pc = "done"
    /\ Len(svc_files) = 1
    /\ svc_futures[1].state = "queued"
    /\ args.obs[svc_files[1]].write = "raises"
    /\ Len(ret.files_results) = 1
    /\ ret.files_processed = 0
    /\ ret.status = "warning"

\* C22: no two file tasks of a service that are in flight at the same time
\* load into the same table, and so none share a staging table.
C22_NoSharedTarget ==
    \A i, j \in Running :
        (i # j) =>
            /\ FileTableName(svc_files[i]) # FileTableName(svc_files[j])
            /\ TempTableName(FileTableName(svc_files[i]), DefaultSuffix)
                  # TempTableName(FileTableName(svc_files[j]), DefaultSuffix)

\* the arguments of a run of main hold a configuration error
ConfigError(a) ==
    \/ a.config_file # "valid"
    \/ a.service # None /\ a.service \notin Range(ConfiguredServices)
    \/ a.table # None /\ a.service = None
    \/ a.rerun /\ a.service = None

EventsOf(kinds) == {i \in 1..Len(events) : events[i].kind \in kinds}

ReportWritten == EventsOf({"report"}) # {}

\* C23: a run that gets to its exit code returns 0 exactly when no
\* validated dataset has a status other than success, in main and in the
\* MSSQL comparison script.
C23_ExitCodeReflectsValidation ==
    /\ (op = "main_run" /\ main_pc = "done" /\ ReportWritten) =>
          ((ret.value = 0) <=>
              \A i \in 1..Len(validation_results) :
                  validation_results[i].status = "success")
    /\ (op = "comparemssql_main" /\ args.has_connection_string) =>
          ((ret.value = 0) <=>
              /\ (args.validation_type \in {"completeness", "both"})
                    => args.completeness = "success"
              /\ (args.validation_type \in {"correctness", "both"})
                    => args.correctness = "success")

\* C24: a run of main whose arguments hold a configuration error ends with
\* exit code 1 and without any effect: no dataset created, no file listed
\* or loaded, no validation, no report.
C24_ConfigErrorStopsRun ==
    (op = "main_run" /\ ConfigError(args)) =>
        /\ main_pc = "done"
        /\ ret = Returns(1)
        /\ events = <<>>
        /\ DOMAIN processing_results = {}
        /\ validation_results = <<>>

\* C24 witness: a valid configuration, --table without --service.
C24_Witness ==
    /\ op = "main_run"
    /\ args.config_file = "valid"
    /\ args.service = None
    /\ args.table # None
    /\ ~args.rerun
    /\ main_pc = "done"
    /\ ret = Returns(1)

\* C25: a run of main without configuration error never ends in an
\* exception of one of its units: it ends with the report written.
C25_UnitErrorsContained ==
    (op = "main_run" /\ main_pc = "done" /\ ~ConfigError(args)) =>
        /\ ~ret.raised
        /\ ReportWritten

\* C26: in validate-only mode no dataset is created and no file is loaded,
\* processing_results stays empty, and a run that ends has validated every
\* selected service.
C26_ValidateOnlyWritesNothing ==
    (op = "main_run" /\ args.validate_only) =>
        /\ EventsOf({"create_dataset", "load"}) = {}
        /\ DOMAIN processing_results = {}
        /\ (main_pc = "done" /\ ~ConfigError(args) /\ ~ret.raised) =>
              \A k \in DOMAIN SelectedServices :
                  \E i \in EventsOf({"validate", "validate_table"}) :
                      events[i].service = SelectedServices[k]

\* C28: with --service and --table the only files loaded are those of that
\* table and the only validation is that of that table, with --rerun or
\* without it.
C28_TableRestrictsRun ==
    (op = "main_run" /\ args.service # None /\ args.table # None /\ ~ConfigError(args)) =>
        /\ \A i \in EventsOf({"load"}) : FileTableName(events[i].detail) = args.table
        /\ EventsOf({"validate"}) = {}
        /\ \A i \in EventsOf({"validate_table"}) :
              FileTableName(events[i].detail) = args.table

\* C29: in a run that is not validate-only, the dataset of every selected
\* service is created before any file is listed or loaded, every selected
\* service has been loaded and collected before any validation starts, and
\* the report is the last effect, written when validation is complete.
C29_PhasesInOrder ==
    (op = "main_run" /\ ~args.validate_only /\ ~ConfigError(args)) =>
        /\ \A j \in EventsOf({"list", "load"}) :
              \A k \in DOMAIN SelectedServices :
                  \E i \in EventsOf({"create_dataset"}) :
                      i < j /\ events[i].service = SelectedServices[k]
        /\ \A j \in EventsOf({"validate", "validate_table"}) :
              /\ \A i \in EventsOf({"load", "collect"}) : i < j
              /\ \A k \in DOMAIN SelectedServices :
                    \E i \in EventsOf({"collect"}) :
                        i < j /\ events[i].service = SelectedServices[k]
        /\ \A j \in EventsOf({"report"}) :
              /\ j = Len(events)
              /\ \A i \in EventsOf({"validate", "validate_table", "load", "collect"}) : i < j
              /\ ValidatesSingleTable(args) \/ Len(validation_results) = Len(SelectedServices)

\* C29 witness: two services were loaded, both were validated and the
\* report was written.
C29_Witness ==
    /\ op = "main_run"
    /\ ~args.validate_only
    /\ main_pc = "done"
    /\ Len(SelectedServices) >= 2
    /\ \A k \in DOMAIN SelectedServices :
          \E i \in EventsOf({"load"}) : events[i].service = SelectedServices[k]
    /\ Cardinality(EventsOf({"validate"})) = Len(SelectedServices)
    /\ ReportWritten

\* what process_single_file returns for file f, from what the warehouse did
ExpectedEntry(f) ==
    IF args.obs[f].write = "raises"
    THEN [file_path |-> f, table_name |-> FileTableName(f), operation |-> "unknown",
          success |-> FALSE, error |-> TRUE]
    ELSE [file_path |-> f, table_name |-> FileTableName(f),
          operation |-> IF args.obs[f].table_exists THEN "upsert" ELSE "create",
          success |-> (args.obs[f].write = "true")]

\* C21: whatever the order of completion, the entries of files_results are
\* those of the selected files, each under its own file, and
\* processing_results maps every service to the result of that service.
C21_AggregationByIdentity ==
    /\ (svc_pc = "done" /\ svc_files # <<>>) =>
          {ret.files_results[j] : j \in 1..Len(ret.files_results)}
              = {ExpectedEntry(f) : f \in Range(svc_files)}
    /\ (op = "main_run") =>
          /\ \A s \in DOMAIN processing_results :
                processing_results[s] =
                    ServiceResult(s, args.csv_files, SpecificTable(args), args.writes[s])
          /\ (main_pc \in {"validate", "report", "done"}
                /\ ~args.validate_only /\ ~ConfigError(args)) =>
                DOMAIN processing_results = Range(SelectedServices)

\* C21 witness: the second service submitted was collected before the
\* first, with a different status, and the run has ended.
C21_Witness ==
    /\ op = "main_run"
    /\ main_pc = "done"
    /\ Len(SelectedServices) >= 2
    /\ \E i, j \in EventsOf({"collect"}) :
          /\ i < j
          /\ events[i].service = SelectedServices[2]
          /\ events[j].service = SelectedServices[1]
    /\ processing_results[SelectedServices[1]].status = "success"
    /\ processing_results[SelectedServices[2]].status = "warning"
====
